---- MODULE Spec2Model ----
(***************************************************************************)
(* Relevance scoring and grouping of research-weekly-feed:                 *)
(*   src/src/filter.py      PaperFilter     (keyword scoring)              *)
(*   src/src/llm_scorer.py  LLMPaperScorer  (LLM scoring, decision cache)  *)
(*   src/src/fetchers/base_fetcher.py  Paper                               *)
(*                                                                         *)
(* Text is a sequence of one-character strings.  A Paper object is a       *)
(* position of the sequence `papers` (its identity) holding a record of    *)
(* its fields; lists of papers are sequences of such positions.            *)
(***************************************************************************)
EXTENDS Integers, Sequences, FiniteSets, TLC

VARIABLES
    primary_keywords,    \* PaperFilter.primary_keywords
    secondary_keywords,  \* PaperFilter.secondary_keywords
    papers,              \* the Paper objects (all_papers of main)
    min_score,           \* the min_score argument of the run
    primary_matches,     \* score_paper's local primary_matches
    secondary_matches,   \* score_paper's local secondary_matches
    kw_result,           \* last return value of PaperFilter.score_paper
    filtered,            \* filtered_papers: references into papers
    groups,              \* return value of group_papers_by_relevance
    use_llm,             \* args.use_llm
    scorer,              \* the LLMPaperScorer, with the cache directory it uses
    now,                 \* datetime.now(), in days
    history,             \* the last call of a method of the scorer
    ncalls,              \* scorers constructed and calls made so far
    runs,                \* two processes in score_paper: where each is
    cache_file,          \* content of the cache file the two processes share
    args,                \* main: the parsed command line
    config,              \* main: the Config, as far as main reads it
    log,                 \* main: the calls it made so far, in order
    pc                   \* position of the run

vars == <<primary_keywords, secondary_keywords, papers, min_score,
          primary_matches, secondary_matches, kw_result, filtered, groups,
          use_llm, scorer, now, history, ncalls, runs, cache_file,
          args, config, log, pc>>

kwVars == <<primary_keywords, secondary_keywords,
            primary_matches, secondary_matches, kw_result>>
llmVars == <<scorer, now, history, ncalls>>
raceVars == <<runs, cache_file>>
mainVars == <<args, config, log>>

-----------------------------------------------------------------------------
(* Bounds of the model *)

MaxAbstractLen == 3
MaxKeywords == 2
MaxPapers == 3
MaxCalls == 3
MaxDays == 2

-----------------------------------------------------------------------------
(* Text *)

\* characters matched by \w
WordChars == {"a", "b", "c", "A"}

\* the characters papers are drawn from in the exhaustive keyword check
Alphabet == {"a", "A", " "}

\* Python None, as it appears in an attribute or a return value
None == <<"None">>

\* all texts over S of length at most n
TextsUpTo(S, n) == UNION {[1..k -> S] : k \in 0..n}

\* str.lower() on one character
LowerChar(c) == IF c = "A" THEN "a" ELSE c

\* str.lower()
Lower(s) == [i \in 1..Len(s) |-> LowerChar(s[i])]

\* PaperFilter._normalize_text
NormalizeText(text) == Lower(text)

\* \b at offset p (0..Len(text)): exactly one of the characters next to the
\* offset is a word character
AtBoundary(text, p) ==
    LET left == p >= 1 /\ text[p] \in WordChars
        right == p < Len(text) /\ text[p + 1] \in WordChars
    IN left # right

\* a pattern without the trailing \b
MatchAtNoTrailingBoundary(text, keyword, p) ==
    /\ p + Len(keyword) <= Len(text)
    /\ AtBoundary(text, p)
    /\ \A i \in 1..Len(keyword) : text[p + i] = keyword[i]

\* the pattern \b + re.escape(keyword) + \b matches at offset p
MatchAt(text, keyword, p) ==
    /\ p + Len(keyword) <= Len(text)
    /\ AtBoundary(text, p)
    /\ \A i \in 1..Len(keyword) : text[p + i] = keyword[i]
    /\ AtBoundary(text, p + Len(keyword))

\* len(re.findall(pattern, text)) scanning from offset p: leftmost matches,
\* the scan resuming at the end of each match
RECURSIVE FindAllFrom(_, _, _)
FindAllFrom(text, keyword, p) ==
    IF p > Len(text) THEN 0
    ELSE IF MatchAt(text, keyword, p)
         THEN 1 + FindAllFrom(text, keyword,
                              p + (IF Len(keyword) = 0 THEN 1 ELSE Len(keyword)))
         ELSE FindAllFrom(text, keyword, p + 1)

FindAll(text, keyword) == FindAllFrom(text, keyword, 0)

-----------------------------------------------------------------------------
(* Python dict as a sequence of <<key, value>> in insertion order *)

DictKeys(d) == [i \in 1..Len(d) |-> d[i][1]]

DictHas(d, k) == \E i \in 1..Len(d) : d[i][1] = k

\* a list of pairs in place of the dict: a repeated key is kept twice
DictSetNoDedup(d, k, v) == Append(d, <<k, v>>)

\* d[k] = v
DictSet(d, k, v) ==
    IF DictHas(d, k)
    THEN [i \in 1..Len(d) |-> IF d[i][1] = k THEN <<k, v>> ELSE d[i]]
    ELSE Append(d, <<k, v>>)

-----------------------------------------------------------------------------
(* PaperFilter *)

\* PaperFilter.__init__: the keyword lists lower-cased
InitKeywords(keywords) == [i \in 1..Len(keywords) |-> Lower(keywords[i])]

\* PaperFilter._count_keyword_matches
RECURSIVE CountLoop(_, _, _, _)
CountLoop(normalized_text, keywords, i, matches) ==
    IF i > Len(keywords) THEN matches
    ELSE LET count == FindAll(normalized_text, keywords[i])
         IN CountLoop(normalized_text, keywords, i + 1,
                      IF count > 0 THEN DictSet(matches, keywords[i], count)
                      ELSE matches)

CountKeywordMatches(text, keywords) ==
    CountLoop(NormalizeText(text), keywords, 1, <<>>)

\* the scoring loops of score_paper: score += count * weight, append keyword
RECURSIVE ScoreLoop(_, _, _, _)
ScoreLoop(matches, weight, i, acc) ==
    IF i > Len(matches) THEN acc
    ELSE ScoreLoop(matches, weight, i + 1,
                   [score |-> acc.score + matches[i][2] * weight,
                    matched_keywords |-> Append(acc.matched_keywords, matches[i][1])])

\* f"{paper.title} {paper.abstract}"
SearchableText(paper) == paper.title \o <<" ">> \o paper.abstract

\* PaperFilter.score_paper
ScorePaperKw(primary, secondary, paper) ==
    LET searchable_text == SearchableText(paper)
        pmatches == CountKeywordMatches(searchable_text, primary)
        smatches == CountKeywordMatches(searchable_text, secondary)
        afterPrimary == ScoreLoop(pmatches, 10, 1,
                                  [score |-> 0, matched_keywords |-> <<>>])
    IN ScoreLoop(smatches, 3, 1, afterPrimary)

-----------------------------------------------------------------------------
(* list.sort(key=lambda p: p.relevance_score, reverse=True) *)

\* an insertion that puts r before the elements equal to it
RECURSIVE InsertBeforeEqual(_, _, _)
InsertBeforeEqual(key, sorted, r) ==
    IF sorted = <<>> THEN <<r>>
    ELSE IF key[Head(sorted)] > key[r]
         THEN <<Head(sorted)>> \o InsertBeforeEqual(key, Tail(sorted), r)
         ELSE <<r>> \o sorted

\* r goes after every element whose key is not smaller: the sort is stable,
\* with reverse=True too
RECURSIVE InsertDesc(_, _, _)
InsertDesc(key, sorted, r) ==
    IF sorted = <<>> THEN <<r>>
    ELSE IF key[Head(sorted)] >= key[r]
         THEN <<Head(sorted)>> \o InsertDesc(key, Tail(sorted), r)
         ELSE <<r>> \o sorted

RECURSIVE SortLoop(_, _, _, _)
SortLoop(key, refs, i, sorted) ==
    IF i > Len(refs) THEN sorted
    ELSE SortLoop(key, refs, i + 1, InsertDesc(key, sorted, refs[i]))

\* refs sorted by the papers' relevance_score, highest first
SortByRelevance(heap, refs) ==
    SortLoop([r \in 1..Len(heap) |-> heap[r].relevance_score], refs, 1, <<>>)

-----------------------------------------------------------------------------
(* PaperFilter.filter_papers and group_papers_by_relevance *)

\* a loop that retains the paper without storing its score and keywords
RECURSIVE FilterLoopNoAssign(_, _, _, _, _, _)
FilterLoopNoAssign(primary, secondary, input, min, i, acc) ==
    IF i > Len(input) THEN acc
    ELSE LET r == input[i]
             res == ScorePaperKw(primary, secondary, acc.papers[r])
         IN FilterLoopNoAssign(primary, secondary, input, min, i + 1,
                IF res.score >= min
                THEN [acc EXCEPT !.filtered = Append(@, r)]
                ELSE acc)

\* a loop that stores score and keywords in every paper it scores
RECURSIVE FilterLoopAssignAll(_, _, _, _, _, _)
FilterLoopAssignAll(primary, secondary, input, min, i, acc) ==
    IF i > Len(input) THEN acc
    ELSE LET r == input[i]
             res == ScorePaperKw(primary, secondary, acc.papers[r])
             scored == [acc.papers EXCEPT
                          ![r].relevance_score = res.score,
                          ![r].matched_keywords = res.matched_keywords]
         IN FilterLoopAssignAll(primary, secondary, input, min, i + 1,
                IF res.score >= min
                THEN [papers |-> scored, filtered |-> Append(acc.filtered, r)]
                ELSE [acc EXCEPT !.papers = scored])

\* the loop of filter_papers over the input list
RECURSIVE FilterLoop(_, _, _, _, _, _)
FilterLoop(primary, secondary, input, min, i, acc) ==
    IF i > Len(input) THEN acc
    ELSE LET r == input[i]
             res == ScorePaperKw(primary, secondary, acc.papers[r])
         IN FilterLoop(primary, secondary, input, min, i + 1,
                IF res.score >= min
                THEN [papers |-> [acc.papers EXCEPT
                                    ![r].relevance_score = res.score,
                                    ![r].matched_keywords = res.matched_keywords],
                      filtered |-> Append(acc.filtered, r)]
                ELSE acc)

\* filter_papers without the final sort
FilterPapersKwUnsorted(primary, secondary, heap, input, min) ==
    FilterLoop(primary, secondary, input, min, 1,
               [papers |-> heap, filtered |-> <<>>])

\* PaperFilter.filter_papers: the papers after the call and the returned list
FilterPapersKw(primary, secondary, heap, input, min) ==
    LET looped == FilterLoop(primary, secondary, input, min, 1,
                             [papers |-> heap, filtered |-> <<>>])
    IN [papers |-> looped.papers,
        filtered |-> SortByRelevance(looped.papers, looped.filtered)]

\* a grouping loop that puts each paper at the front of its group
RECURSIVE GroupLoopPrepend(_, _, _, _, _, _)
GroupLoopPrepend(heap, input, high, medium, i, acc) ==
    IF i > Len(input) THEN acc
    ELSE LET score == heap[input[i]].relevance_score
         IN GroupLoopPrepend(heap, input, high, medium, i + 1,
                IF score >= high
                THEN [acc EXCEPT !.high = <<input[i]>> \o @]
                ELSE IF score >= medium
                     THEN [acc EXCEPT !.medium = <<input[i]>> \o @]
                     ELSE [acc EXCEPT !.low = <<input[i]>> \o @])

\* the grouping loop, of the same shape in both scorers
RECURSIVE GroupLoop(_, _, _, _, _, _)
GroupLoop(heap, input, high, medium, i, acc) ==
    IF i > Len(input) THEN acc
    ELSE LET score == heap[input[i]].relevance_score
         IN GroupLoop(heap, input, high, medium, i + 1,
                IF score >= high
                THEN [acc EXCEPT !.high = Append(@, input[i])]
                ELSE IF score >= medium
                     THEN [acc EXCEPT !.medium = Append(@, input[i])]
                     ELSE [acc EXCEPT !.low = Append(@, input[i])])

EmptyGroups == [high |-> <<>>, medium |-> <<>>, low |-> <<>>]

\* thresholds compared with > in place of >=
GroupPapersKwStrict(heap, input) == GroupLoop(heap, input, 21, 11, 1, EmptyGroups)

\* PaperFilter.group_papers_by_relevance
GroupPapersKw(heap, input) == GroupLoop(heap, input, 20, 10, 1, EmptyGroups)

-----------------------------------------------------------------------------
(* The Paper dataclass *)

NoMetadata == [absent |-> TRUE]

\* Paper(...) as a fetcher constructs it: the scoring fields at their defaults
NewPaper(title, abstract, url, source) ==
    [title |-> title, abstract |-> abstract, url |-> url, source |-> source,
     relevance_score |-> 0, matched_keywords |-> <<>>,
     llm_metadata |-> NoMetadata]

-----------------------------------------------------------------------------
(* LLMPaperScorer: the decision cache *)

\* paper.abstract or ""
AbstractOrEmpty(abstract) == IF abstract = None THEN <<>> ELSE abstract

\* LLMPaperScorer._get_cache_key: the md5 digest of f"{title}|{abstract}",
\* identified with the content it digests
GetCacheKey(title, abstract) == title \o <<"|">> \o abstract

\* a key that also digests the paper's source
CacheKeyWithSource(paper) ==
    GetCacheKey(paper.title, AbstractOrEmpty(paper.abstract)) \o <<paper.source>>

\* score_paper: cache_key = self._get_cache_key(paper.title, paper.abstract or "")
CacheKeyOf(paper) == GetCacheKey(paper.title, AbstractOrEmpty(paper.abstract))

\* the cache directory with no file in it
EmptyCache == [k \in {} |-> [cached_at |-> 0]]

Absent == [absent |-> TRUE]

\* a cache file whose content json.load does not accept
Unparsable == [unparsable |-> TRUE]

\* datetime.isoformat() of the time t: the text of the timestamp
Isoformat(t) == [iso |-> t]

\* datetime.fromisoformat(text): the time, or ValueError for another text
FromIsoformat(text) ==
    IF "iso" \in DOMAIN text THEN [ok |-> TRUE, time |-> text.iso]
    ELSE [ok |-> FALSE, time |-> 0]

\* a lookup that never finds the file
LoadFromCacheAlwaysMiss(sc, cache_key) ==
    [sc |-> sc, cached |-> Absent, raised |-> FALSE]

\* LLMPaperScorer._load_from_cache: the scorer after the call, what it
\* returns (Absent for None) and whether json.load raised
LoadFromCache(sc, cache_key) ==
    IF cache_key \in DOMAIN sc.cache
    THEN IF sc.cache[cache_key] = Unparsable
         THEN [sc |-> [sc EXCEPT !.cache_hits = @ + 1], cached |-> Absent,
               raised |-> TRUE]
         ELSE [sc |-> [sc EXCEPT !.cache_hits = @ + 1],
               cached |-> sc.cache[cache_key], raised |-> FALSE]
    ELSE [sc |-> sc, cached |-> Absent, raised |-> FALSE]

\* the entry without the timestamp
CacheDataNoTimestamp(decision, nowv) == decision

\* {**decision, "cached_at": datetime.now().isoformat()}
CacheData(decision, nowv) ==
    [f \in DOMAIN decision \cup {"cached_at"} |->
        IF f = "cached_at" THEN Isoformat(nowv) ELSE decision[f]]

\* a write that does not happen
SaveToCacheSkipped(sc, cache_key, decision, nowv) == sc

\* LLMPaperScorer._save_to_cache: the file of the key is (over)written
SaveToCache(sc, cache_key, decision, nowv) ==
    [sc EXCEPT !.cache = (cache_key :> CacheData(decision, nowv)) @@ @]

\* a comparison that also removes the entry written exactly at the cutoff
ExpiredInclusive(data, cutoff_date) ==
    /\ data # Unparsable
    /\ "cached_at" \in DOMAIN data
    /\ FromIsoformat(data.cached_at).ok
    /\ FromIsoformat(data.cached_at).time <= cutoff_date

\* the body of the loop of clean_old_cache: the file is removed when it
\* parses, has a cached_at that is a timestamp, and that is before the cutoff;
\* any exception leaves the file in place
Expired(data, cutoff_date) ==
    /\ data # Unparsable
    /\ "cached_at" \in DOMAIN data
    /\ FromIsoformat(data.cached_at).ok
    /\ FromIsoformat(data.cached_at).time < cutoff_date

\* LLMPaperScorer.clean_old_cache: the scorer after the sweep and the count
\* it returns
CleanOldCache(sc, days, nowv) ==
    LET cutoff_date == nowv - days
        removed == {k \in DOMAIN sc.cache : Expired(sc.cache[k], cutoff_date)}
    IN [sc |-> [sc EXCEPT !.cache =
                   [k \in DOMAIN sc.cache \ removed |-> sc.cache[k]]],
        removed_count |-> Cardinality(removed)]

-----------------------------------------------------------------------------
(* LLMPaperScorer: the provider call *)

\* What the provider answers to one request:
\*   "error"     the client raises (network, provider error)
\*   "json"      the content is the JSON text of the object `value`
\*   "embedded"  the content is text around one block {...} holding `value`
\*   "text"      the content holds no JSON and no block
\*   "nonobject" the content is JSON, but no object (a list)
Raised(msg) == [ok |-> FALSE, error |-> msg]
Parsed(value, isobject) == [ok |-> TRUE, decision |-> value, isobject |-> isobject]

\* str.strip(): the text without its leading and trailing whitespace
RECURSIVE LStrip(_)
LStrip(s) == IF s # <<>> /\ Head(s) = " " THEN LStrip(Tail(s)) ELSE s

RECURSIVE RStrip(_)
RStrip(s) ==
    IF s # <<>> /\ s[Len(s)] = " " THEN RStrip(SubSeq(s, 1, Len(s) - 1)) ELSE s

Strip(s) == RStrip(LStrip(s))

\* the text the prompt holds in place of an abstract
NotAvailable == <<"[Not available - please evaluate based on title only]">>

\* a prompt that holds the abstract as it is, blank or not
CreatePromptNoPlaceholder(sc, title, abstract, source) ==
    [research_interests |-> sc.research_interests,
     paper_info |-> [source |-> source, title |-> title, abstract |-> abstract]]

\* LLMPaperScorer._create_prompt: the parts the fixed text of the prompt is
\* filled with
CreatePrompt(sc, title, abstract, source) ==
    [research_interests |-> sc.research_interests,
     paper_info |->
         [source |-> source, title |-> title,
          abstract |-> IF abstract # <<>> /\ Strip(abstract) # <<>>
                       THEN abstract ELSE NotAvailable]]

\* LLMPaperScorer._call_dashscope: the prompt goes to the client as the user
\* message; the content is parsed, with the first {...} block as a fallback
CallDashscope(prompt, resp) ==
    [request |-> prompt] @@
    CASE resp.kind = "error" -> Raised("api error")
      [] resp.kind = "json" -> Parsed(resp.value, TRUE)
      [] resp.kind = "nonobject" -> Parsed(Absent, FALSE)
      [] resp.kind = "embedded" -> Parsed(resp.value, TRUE)
      [] OTHER -> Raised("Could not parse JSON from response")

\* LLMPaperScorer._call_azure: the content is parsed by json.loads alone
CallAzure(prompt, resp) ==
    [request |-> prompt] @@
    CASE resp.kind = "error" -> Raised("api error")
      [] resp.kind = "json" -> Parsed(resp.value, TRUE)
      [] resp.kind = "nonobject" -> Parsed(Absent, FALSE)
      [] OTHER -> Raised("JSONDecodeError")

\* the provider branch of score_paper; with another provider no request is
\* made
CallProvider(provider, prompt, resp) ==
    IF provider = "dashscope" THEN CallDashscope(prompt, resp)
    ELSE IF provider = "azure" THEN CallAzure(prompt, resp)
    ELSE [request |-> Absent] @@ Raised("Unknown provider")

-----------------------------------------------------------------------------
(* LLMPaperScorer.score_paper *)

Returned(relevant, score, metadata) ==
    [kind |-> "return", relevant |-> relevant, score |-> score, metadata |-> metadata]

\* an except branch that lets the exception go on to the caller
ErrorResultReraised(msg) == [kind |-> "raise", exc |-> msg]

\* the except branch: return False, 0, {"error": str(e), "cached": False}
ErrorResult(msg) == Returned(FALSE, 0, [error |-> msg, cached |-> FALSE])

\* an exception that leaves score_paper
Propagated(exc) == [kind |-> "raise", exc |-> exc]

RequiredFields == {"relevant", "score", "confidence", "reasoning"}

\* d.get("topics", [])
TopicsOf(d) == IF "topics" \in DOMAIN d THEN d.topics ELSE <<>>

\* the tuple built from a decision or a cache entry d
ResultTuple(d, cached) ==
    Returned(d.relevant, d.score,
             [confidence |-> d.confidence, reasoning |-> d.reasoning,
              topics |-> TopicsOf(d), cached |-> cached])

\* LLMPaperScorer.score_paper: the key it used, the scorer after the call,
\* the request that went to the provider (Absent when none did) and the
\* outcome
ScorePaperLLM(sc, paper, resp, nowv) ==
    LET cache_key == CacheKeyOf(paper)
        loaded == LoadFromCache(sc, cache_key)
    IN IF loaded.raised
       THEN \* json.load raises outside the try block
            [key |-> cache_key, sc |-> loaded.sc, request |-> Absent,
             out |-> Propagated("JSONDecodeError")]
       ELSE IF loaded.cached # Absent
       THEN \* the cache hit is outside the try block
            IF RequiredFields \subseteq DOMAIN loaded.cached
            THEN [key |-> cache_key, sc |-> loaded.sc, request |-> Absent,
                  out |-> ResultTuple(loaded.cached, TRUE)]
            ELSE [key |-> cache_key, sc |-> loaded.sc, request |-> Absent,
                  out |-> Propagated("KeyError")]
       ELSE LET prompt == CreatePrompt(sc, paper.title,
                                       AbstractOrEmpty(paper.abstract),
                                       paper.source)
                called == [loaded.sc EXCEPT !.cache_misses = @ + 1,
                                            !.api_calls = @ + 1]
                answer == CallProvider(sc.provider, prompt, resp)
            IN IF ~answer.ok
               THEN [key |-> cache_key, sc |-> called,
                     request |-> answer.request,
                     out |-> ErrorResult(answer.error)]
               ELSE IF ~answer.isobject
                    THEN \* {**decision} of a list raises inside _save_to_cache
                         [key |-> cache_key, sc |-> called,
                          request |-> answer.request,
                          out |-> ErrorResult("TypeError")]
                    ELSE LET saved == SaveToCache(called, cache_key,
                                                  answer.decision, nowv)
                         IN IF RequiredFields \subseteq DOMAIN answer.decision
                            THEN [key |-> cache_key, sc |-> saved,
                                  request |-> answer.request,
                                  out |-> ResultTuple(answer.decision, FALSE)]
                            ELSE [key |-> cache_key, sc |-> saved,
                                  request |-> answer.request,
                                  out |-> ErrorResult("KeyError")]

-----------------------------------------------------------------------------
(* LLMPaperScorer.score_papers_batch and group_papers_by_relevance *)

\* metadata.get("topics", [])
TopicsOfMetadata(metadata) ==
    IF "topics" \in DOMAIN metadata THEN metadata.topics ELSE <<>>

\* the loop of score_papers_batch; resps[i] is what the provider answers if
\* it is called for the i-th paper.  An exception leaving score_paper leaves
\* the loop and the batch.  acc.calls lists the calls of score_paper that
\* returned: the paper and what was returned.
RECURSIVE BatchLoop(_, _, _, _, _, _)
BatchLoop(input, resps, min, nowv, i, acc) ==
    IF i > Len(input) \/ acc.raised THEN acc
    ELSE LET r == input[i]
             res == ScorePaperLLM(acc.sc, acc.papers[r], resps[i], nowv)
             calls == Append(acc.calls, [paper |-> r, out |-> res.out])
         IN IF res.out.kind = "raise"
            THEN [acc EXCEPT !.sc = res.sc, !.raised = TRUE]
            ELSE BatchLoop(input, resps, min, nowv, i + 1,
                   IF res.out.score >= min
                   THEN [sc |-> res.sc,
                         papers |-> [acc.papers EXCEPT
                             ![r].relevance_score = res.out.score,
                             ![r].llm_metadata = res.out.metadata,
                             ![r].matched_keywords =
                                 TopicsOfMetadata(res.out.metadata)],
                         filtered |-> Append(acc.filtered, r),
                         raised |-> FALSE,
                         calls |-> calls]
                   ELSE [acc EXCEPT !.sc = res.sc, !.calls = calls])

\* LLMPaperScorer.score_papers_batch
ScorePapersBatch(sc, heap, input, resps, min, nowv) ==
    LET looped == BatchLoop(input, resps, min, nowv, 1,
                            [sc |-> sc, papers |-> heap, filtered |-> <<>>,
                             raised |-> FALSE, calls |-> <<>>])
    IN IF looped.raised THEN looped
       ELSE [looped EXCEPT !.filtered = SortByRelevance(looped.papers, @)]

\* the thresholds of the keyword scale used on the 0-100 scale
GroupPapersLLMKeywordScale(heap, input) ==
    GroupLoop(heap, input, 20, 10, 1, EmptyGroups)

\* LLMPaperScorer.group_papers_by_relevance
GroupPapersLLM(heap, input) == GroupLoop(heap, input, 75, 50, 1, EmptyGroups)

\* LLMPaperScorer.__init__ on the cache directory `cache`
NewScorer(provider, research_interests, cache) ==
    [provider |-> provider, research_interests |-> research_interests,
     cache |-> cache, cache_hits |-> 0, cache_misses |-> 0, api_calls |-> 0]

\* no method of the scorer was called yet
NoCall == [op |-> "none"]

\* no process is in score_paper
NoRuns == <<>>

\* the cache file does not exist
NoFile == <<[tok |-> "absent"]>>

\* no LLMPaperScorer was constructed
NoScorer == NewScorer("none", "none", EmptyCache)

\* main has not parsed a command line, loaded a Config or called anything
NoArgs == [source |-> "none"]
NoConfig == [provider |-> "none"]
NoLog == <<>>

\* a call main makes: what is called, for which source, whether it raised
\* and the papers it returned
Event(call, src, raised, returned) ==
    [call |-> call, source |-> src, raised |-> raised, returned |-> returned]

-----------------------------------------------------------------------------
(* Keyword scoring of one paper, over all short texts *)

KeywordPool == {<<"a">>, <<"A">>, <<"a", " ", "a">>}

\* the keyword lists of the configuration
KeywordLists == UNION {[1..k -> KeywordPool] : k \in 0..MaxKeywords}

TitlePool == TextsUpTo(Alphabet, 1)

NoResult == [score |-> -1, matched_keywords |-> <<>>]
NoGroups == [high |-> <<>>, medium |-> <<>>, low |-> <<>>, absent |-> TRUE]

InitKw ==
    /\ \E kws \in KeywordLists : primary_keywords = InitKeywords(kws)
    /\ \E kws \in KeywordLists : secondary_keywords = InitKeywords(kws)
    /\ \E title \in TitlePool, abstract \in TextsUpTo(Alphabet, MaxAbstractLen) :
           papers = <<NewPaper(title, abstract, "u1", "s1")>>
    /\ min_score = 1
    /\ primary_matches = <<>>
    /\ secondary_matches = <<>>
    /\ kw_result = NoResult
    /\ filtered = <<>>
    /\ groups = NoGroups
    /\ use_llm = FALSE
    /\ scorer = NoScorer
    /\ now = 0
    /\ history = NoCall
    /\ ncalls = 0
    /\ runs = NoRuns
    /\ cache_file = NoFile
    /\ args = NoArgs
    /\ config = NoConfig
    /\ log = NoLog
    /\ pc = "ready"

\* paper_filter.score_paper(paper)
ScorePaper ==
    /\ pc = "ready"
    /\ \E r \in 1..Len(papers) :
        /\ primary_matches' =
               CountKeywordMatches(SearchableText(papers[r]), primary_keywords)
        /\ secondary_matches' =
               CountKeywordMatches(SearchableText(papers[r]), secondary_keywords)
        /\ kw_result' = ScorePaperKw(primary_keywords, secondary_keywords, papers[r])
    /\ pc' = "scored"
    /\ UNCHANGED <<primary_keywords, secondary_keywords, papers, min_score,
                   filtered, groups, use_llm>>
    /\ UNCHANGED <<llmVars, raceVars, mainVars>>

NextKw == ScorePaper

SpecKw == InitKw /\ [][NextKw]_vars

-----------------------------------------------------------------------------
(* The run of main from the fetched papers on: one scorer, then grouping *)

\* papers by the words of their text; with primary "a" and secondary "b" they
\* score 0, 3, 9, 10, 19, 20 and 23
PaperPool ==
    { NewPaper(<<"c">>, <<"a", "b">>, "u0", "ArXiv"),
      NewPaper(<<"c">>, <<"b">>, "u3", "ArXiv"),
      NewPaper(<<"b">>, <<"b", " ", "b">>, "u9", "Nature"),
      NewPaper(<<"A">>, <<>>, "u10", "Nature"),
      NewPaper(<<"a">>, <<"b", " ", "b", " ", "b">>, "u19", "SAGE"),
      NewPaper(<<"a">>, <<"a">>, "u20", "SAGE"),
      NewPaper(<<"a", " ", "a">>, <<"b">>, "u23", "ArXiv") }

\* config.primary_keywords and config.secondary_keywords
FilterConfigs ==
    { [primary |-> << <<"a">> >>, secondary |-> << <<"b">> >>],
      [primary |-> << <<"A">>, <<"a">> >>, secondary |-> << <<"b">>, <<"a">> >>] }

\* args.min_score in keyword mode
MinScores == {0, 1, 10, 20}

PaperLists == UNION {[1..k -> PaperPool] : k \in 0..MaxPapers}

\* the papers of a run in LLM mode, one of them with no abstract; a list may
\* hold several papers with the same title and abstract
LLMRunPool ==
    { NewPaper(<<"a">>, <<"b">>, "u1", "ArXiv"),
      NewPaper(<<"a">>, <<"c">>, "u2", "Nature"),
      NewPaper(<<"c">>, None, "u3", "SAGE") }

LLMRunLists == UNION {[1..k -> LLMRunPool] : k \in 0..MaxPapers}

\* a decision object with every field the prompt asks for
Decision(score) ==
    [relevant |-> score >= 50, score |-> score, confidence |-> "high",
     reasoning |-> "r", topics |-> <<"t">>]

\* a decision object without the field "relevant"
DecisionNoRelevant(score) ==
    [score |-> score, confidence |-> "high", reasoning |-> "r", topics |-> <<"t">>]

\* a decision object whose score and confidence are outside the values the
\* prompt asks for
DecisionOutOfRange ==
    [relevant |-> TRUE, score |-> 150, confidence |-> "certain",
     reasoning |-> "r", topics |-> <<"t">>]

\* a decision object without the field "topics"
DecisionNoTopics(score) ==
    [relevant |-> score >= 50, score |-> score, confidence |-> "low",
     reasoning |-> "r"]

\* what the provider may answer during a run
RunResponses ==
    {[kind |-> "json", value |-> Decision(s)] : s \in {49, 50, 74, 75}}
    \cup {[kind |-> "json", value |-> DecisionNoRelevant(75)],
          [kind |-> "error"]}

\* min_score in LLM mode: args.min_score if above 1, else config.llm_min_score
LLMMinScores == {0, 50}

Init ==
    /\ use_llm \in BOOLEAN
    /\ IF use_llm
       THEN /\ primary_keywords = <<>>
            /\ secondary_keywords = <<>>
            /\ papers \in LLMRunLists
            /\ min_score \in LLMMinScores
            /\ \E provider \in {"dashscope", "azure"} :
                   scorer = NewScorer(provider, "i1", EmptyCache)
       ELSE /\ \E cfg \in FilterConfigs :
                /\ primary_keywords = InitKeywords(cfg.primary)
                /\ secondary_keywords = InitKeywords(cfg.secondary)
            /\ papers \in PaperLists
            /\ min_score \in MinScores
            /\ scorer = NoScorer
    /\ primary_matches = <<>>
    /\ secondary_matches = <<>>
    /\ kw_result = NoResult
    /\ filtered = <<>>
    /\ groups = NoGroups
    /\ now = 0
    /\ history = NoCall
    /\ ncalls = 0
    /\ runs = NoRuns
    /\ cache_file = NoFile
    /\ args = NoArgs
    /\ config = NoConfig
    /\ log = NoLog
    /\ pc = "fetched"

\* main: no paper was fetched
NoPapers ==
    /\ pc = "fetched"
    /\ papers = <<>>
    /\ pc' = "exit0"
    /\ log' = Append(log, Event("sys.exit(0)", "-", FALSE, <<>>))
    /\ UNCHANGED <<papers, min_score, filtered, groups, use_llm>>
    /\ UNCHANGED <<kwVars, llmVars, raceVars, args, config>>

\* main: paper_filter.filter_papers(all_papers, min_score=args.min_score)
FilterPapers ==
    /\ pc = "fetched"
    /\ ~use_llm
    /\ papers # <<>>
    /\ \E res \in {FilterPapersKw(primary_keywords, secondary_keywords, papers,
                                    [i \in 1..Len(papers) |-> i], min_score)} :
          /\ papers' = res.papers
          /\ filtered' = res.filtered
    /\ pc' = "filtered"
    /\ log' = Append(log, Event("PaperFilter.filter_papers", "-", FALSE, <<>>))
    /\ UNCHANGED <<min_score, groups, use_llm>>
    /\ UNCHANGED <<kwVars, llmVars, raceVars, args, config>>

\* main: llm_scorer.score_papers_batch(all_papers, min_score=min_score)
ScoreBatch ==
    /\ pc = "fetched"
    /\ use_llm
    /\ papers # <<>>
    /\ \E resps \in [1..Len(papers) -> RunResponses] :
        \E res \in {ScorePapersBatch(scorer, papers, [i \in 1..Len(papers) |-> i],
                                      resps, min_score, now)} :
           /\ papers' = res.papers
           /\ scorer' = res.sc
           /\ filtered' = res.filtered
           /\ pc' = IF res.raised THEN "crashed" ELSE "filtered"
    /\ log' = Append(log, Event("LLMPaperScorer.score_papers_batch", "-", pc' = "crashed", <<>>))
    /\ UNCHANGED <<min_score, groups, use_llm, now, history, ncalls>>
    /\ UNCHANGED <<kwVars, raceVars, args, config>>

\* a run that goes on to the report although no paper was retained
NoMatchesReported ==
    /\ pc = "filtered"
    /\ filtered = <<>>
    /\ pc' = "done"
    /\ log' = Append(log, Event("generate_report", "-", FALSE, <<>>))
    /\ UNCHANGED <<papers, min_score, filtered, groups, use_llm>>
    /\ UNCHANGED <<kwVars, llmVars, raceVars, args, config>>

\* main: no paper was retained
NoMatches ==
    /\ pc = "filtered"
    /\ filtered = <<>>
    /\ pc' = "exit0"
    /\ log' = Append(log, Event("sys.exit(0)", "-", FALSE, <<>>))
    /\ UNCHANGED <<papers, min_score, filtered, groups, use_llm>>
    /\ UNCHANGED <<kwVars, llmVars, raceVars, args, config>>

\* main: group_papers_by_relevance(filtered_papers) of the scorer of the run
GroupPapers ==
    /\ pc = "filtered"
    /\ filtered # <<>>
    /\ groups' = IF use_llm THEN GroupPapersLLM(papers, filtered)
                 ELSE GroupPapersKw(papers, filtered)
    /\ pc' = "grouped"
    /\ log' = Append(log, Event(IF use_llm
                                THEN "LLMPaperScorer.group_papers_by_relevance"
                                ELSE "PaperFilter.group_papers_by_relevance",
                                "-", FALSE, <<>>))
    /\ UNCHANGED <<papers, min_score, filtered, use_llm>>
    /\ UNCHANGED <<kwVars, llmVars, raceVars, args, config>>

Next == NoPapers \/ FilterPapers \/ ScoreBatch \/ NoMatches \/ GroupPapers

Spec == Init /\ [][Next]_vars

\* the same run on papers that may have been scored before.  In LLM mode: a
\* paper with the fields as constructed, one that kept the score, topics and
\* llm_metadata of an earlier score_papers_batch, one that kept the error
\* annotation of an earlier batch
LLMFramePool ==
    { NewPaper(<<"a">>, <<"b">>, "u1", "ArXiv"),
      [NewPaper(<<"c">>, <<"c">>, "u2", "Nature") EXCEPT
          !.relevance_score = 60,
          !.matched_keywords = <<"t">>,
          !.llm_metadata = [confidence |-> "low", reasoning |-> "r",
                            topics |-> <<"t">>, cached |-> TRUE]],
      [NewPaper(<<"b">>, None, "u3", "SAGE") EXCEPT
          !.llm_metadata = [error |-> "api error", cached |-> FALSE]] }

\* in keyword mode: a paper with the fields as constructed and two that kept
\* the score and keywords of an earlier filter_papers with other keywords
KwFramePool ==
    { NewPaper(<<"a">>, <<"b">>, "u1", "ArXiv"),
      [NewPaper(<<"c">>, <<"c">>, "u2", "Nature") EXCEPT
          !.relevance_score = 10,
          !.matched_keywords = << <<"c">> >>],
      [NewPaper(<<"b">>, <<>>, "u3", "SAGE") EXCEPT
          !.relevance_score = 23,
          !.matched_keywords = << <<"c">>, <<"b">> >>] }

FrameLists(pool) == UNION {[1..k -> pool] : k \in 0..MaxPapers}

InitFrame ==
    /\ use_llm \in BOOLEAN
    /\ IF use_llm
       THEN /\ primary_keywords = <<>>
            /\ secondary_keywords = <<>>
            /\ papers \in FrameLists(LLMFramePool)
            /\ min_score \in LLMMinScores
            /\ \E provider \in {"dashscope", "azure"} :
                   scorer = NewScorer(provider, "i1", EmptyCache)
       ELSE /\ \E cfg \in FilterConfigs :
                /\ primary_keywords = InitKeywords(cfg.primary)
                /\ secondary_keywords = InitKeywords(cfg.secondary)
            /\ papers \in FrameLists(KwFramePool)
            /\ min_score \in MinScores
            /\ scorer = NoScorer
    /\ primary_matches = <<>>
    /\ secondary_matches = <<>>
    /\ kw_result = NoResult
    /\ filtered = <<>>
    /\ groups = NoGroups
    /\ now = 0
    /\ history = NoCall
    /\ ncalls = 0
    /\ runs = NoRuns
    /\ cache_file = NoFile
    /\ args = NoArgs
    /\ config = NoConfig
    /\ log = NoLog
    /\ pc = "fetched"

SpecFrame == InitFrame /\ [][Next]_vars

-----------------------------------------------------------------------------
(* The whole run of main: configuration, fetching source by source, one     *)
(* scorer, grouping, report                                                *)

\* the papers the sources deliver to one run, at most
MaxFetched == 2

\* the fetch blocks of main, in their order
SourceOrder == <<"arxiv", "sage", "nature", "other", "crossref">>

\* the choices of --source
SourceChoices == {"all", "arxiv", "sage", "nature", "other", "crossref"}

\* args.source in ["all", s]
Selected(a, s) == a.source \in {"all", s}

\* the configuration files: whether the keywords file exists, and what the
\* LLM configuration holds ("" is what Config returns for a missing value)
Configs ==
    { [keywords_file |-> FALSE, provider |-> "dashscope",
       dashscope_api_key |-> "k", azure_endpoint |-> "", azure_api_key |-> ""],
      [keywords_file |-> TRUE, provider |-> "dashscope",
       dashscope_api_key |-> "k", azure_endpoint |-> "", azure_api_key |-> ""],
      [keywords_file |-> TRUE, provider |-> "dashscope",
       dashscope_api_key |-> "", azure_endpoint |-> "e", azure_api_key |-> "k"],
      [keywords_file |-> TRUE, provider |-> "azure",
       dashscope_api_key |-> "", azure_endpoint |-> "e", azure_api_key |-> "k"],
      [keywords_file |-> TRUE, provider |-> "azure",
       dashscope_api_key |-> "k", azure_endpoint |-> "", azure_api_key |-> "k"],
      [keywords_file |-> TRUE, provider |-> "azure",
       dashscope_api_key |-> "k", azure_endpoint |-> "e", azure_api_key |-> ""],
      [keywords_file |-> TRUE, provider |-> "other",
       dashscope_api_key |-> "k", azure_endpoint |-> "e", azure_api_key |-> "k"] }

\* a check that lets a provider through that is none of the two
LLMConfigErrorKnownOnly(cfg) ==
    IF cfg.provider = "dashscope" THEN cfg.dashscope_api_key = ""
    ELSE IF cfg.provider = "azure"
         THEN cfg.azure_endpoint = "" \/ cfg.azure_api_key = ""
         ELSE FALSE

\* the check of the LLM configuration fails
LLMConfigError(cfg) ==
    IF cfg.provider = "dashscope" THEN cfg.dashscope_api_key = ""
    ELSE IF cfg.provider = "azure"
         THEN cfg.azure_endpoint = "" \/ cfg.azure_api_key = ""
         ELSE TRUE

\* the paper a source has in the time range
SourcePaper(s) ==
    CASE s = "arxiv" -> NewPaper(<<"a">>, <<"b">>, "x1", "ArXiv")
      [] s = "sage" -> NewPaper(<<"b">>, <<>>, "s1", "SAGE")
      [] s = "nature" -> NewPaper(<<"c">>, <<"a">>, "n1", "Nature")
      [] s = "other" -> NewPaper(<<"a">>, <<"b">>, "o1", "Other")
      [] OTHER -> NewPaper(<<"c">>, <<>>, "c1", "CrossRef")

\* what the fetch block of a source may do: the fetcher raises, or
\* fetch_papers returns no paper or the paper of the source
FetchOutcomes(s) ==
    { [raised |-> TRUE, returned |-> <<>>],
      [raised |-> FALSE, returned |-> <<>>],
      [raised |-> FALSE, returned |-> <<SourcePaper(s)>>] }

\* a fetch block whose failure drops the papers of the blocks before it
FetchBlockFailureClears(all_papers, outcome) ==
    IF outcome.raised THEN <<>> ELSE all_papers \o outcome.returned

\* a fetch block: all_papers.extend(...) when the fetcher returned, nothing
\* when it raised
FetchBlock(all_papers, outcome) ==
    IF outcome.raised THEN all_papers ELSE all_papers \o outcome.returned

\* the position after the fetch block i
AfterSource(i) == IF i < Len(SourceOrder) THEN SourceOrder[i + 1] ELSE "fetched"

InitMain ==
    /\ use_llm \in BOOLEAN
    /\ args \in [source : SourceChoices, summary : BOOLEAN]
    /\ config \in Configs
    /\ IF use_llm
       THEN /\ primary_keywords = <<>>
            /\ secondary_keywords = <<>>
            /\ min_score = 50
            /\ scorer = NewScorer(config.provider, "i1", EmptyCache)
       ELSE /\ primary_keywords = InitKeywords(<< <<"a">> >>)
            /\ secondary_keywords = InitKeywords(<< <<"b">> >>)
            /\ min_score = 1
            /\ scorer = NoScorer
    /\ papers = <<>>
    /\ primary_matches = <<>>
    /\ secondary_matches = <<>>
    /\ kw_result = NoResult
    /\ filtered = <<>>
    /\ groups = NoGroups
    /\ now = 0
    /\ history = NoCall
    /\ ncalls = 0
    /\ runs = NoRuns
    /\ cache_file = NoFile
    /\ log = NoLog
    /\ pc = "start"

\* main: config = Config(...); FileNotFoundError ends the run with status 1
LoadConfig ==
    /\ pc = "start"
    /\ IF config.keywords_file
       THEN /\ pc' = "loaded"
            /\ log' = Append(log, Event("Config", "-", FALSE, <<>>))
       ELSE /\ pc' = "exit1"
            /\ log' = Append(Append(log, Event("Config", "-", TRUE, <<>>)),
                             Event("sys.exit(1)", "-", FALSE, <<>>))
    /\ UNCHANGED <<papers, min_score, filtered, groups, use_llm, args, config>>
    /\ UNCHANGED <<kwVars, llmVars, raceVars>>

\* main: the check of the LLM configuration in --use-llm mode
CheckLLMConfig ==
    /\ pc = "loaded"
    /\ IF use_llm /\ LLMConfigError(config)
       THEN /\ pc' = "exit1"
            /\ log' = Append(log, Event("sys.exit(1)", "-", FALSE, <<>>))
       ELSE /\ pc' = SourceOrder[1]
            /\ log' = log
    /\ UNCHANGED <<papers, min_score, filtered, groups, use_llm, args, config>>
    /\ UNCHANGED <<kwVars, llmVars, raceVars>>

\* main: the fetch block of one source; an exception of the fetcher is
\* printed and the run goes on with the next block
FetchSource ==
    /\ \E i \in 1..Len(SourceOrder) :
        /\ pc = SourceOrder[i]
        /\ pc' = AfterSource(i)
        /\ IF Selected(args, SourceOrder[i])
           THEN \E outcome \in FetchOutcomes(SourceOrder[i]) :
                   /\ Len(papers) + Len(outcome.returned) <= MaxFetched
                   /\ papers' = FetchBlock(papers, outcome)
                   /\ log' = Append(log, Event("fetch_papers", SourceOrder[i],
                                               outcome.raised, outcome.returned))
           ELSE /\ papers' = papers
                /\ log' = log
    /\ UNCHANGED <<min_score, filtered, groups, use_llm, args, config>>
    /\ UNCHANGED <<kwVars, llmVars, raceVars>>

\* main: the report is written; an exception ends the run with status 1
GenerateReport ==
    /\ pc = "grouped"
    /\ \E raised \in BOOLEAN :
        /\ log' = Append(log, Event(IF args.summary
                                    THEN "generate_summary_report"
                                    ELSE "generate_report",
                                    "-", raised, <<>>))
        /\ pc' = IF raised THEN "exit1" ELSE "done"
    /\ UNCHANGED <<papers, min_score, filtered, groups, use_llm, args, config>>
    /\ UNCHANGED <<kwVars, llmVars, raceVars>>

\* the exit status of the process: 1 also for an exception nothing catches,
\* -1 while it runs
ExitStatus ==
    CASE pc \in {"exit0", "done"} -> 0
      [] pc \in {"exit1", "crashed"} -> 1
      [] OTHER -> -1

NextMain ==
    \/ LoadConfig
    \/ CheckLLMConfig
    \/ FetchSource
    \/ NoPapers
    \/ FilterPapers
    \/ ScoreBatch
    \/ NoMatches
    \/ GroupPapers
    \/ GenerateReport

SpecMain == InitMain /\ [][NextMain]_vars

-----------------------------------------------------------------------------
(* ArXivFetcher.fetch_papers: one search per configured category *)

\* the configured categories of one fetcher, at most
MaxCategories == 3

\* what the iteration over the results of a search yields: a result with
\* its entry id and its day of publication, a result whose conversion to a
\* Paper raises, or an exception of the client
Result(entry_id, published) ==
    [kind |-> "result", entry_id |-> entry_id, published |-> published]
Malformed(entry_id, published) ==
    [kind |-> "malformed", entry_id |-> entry_id, published |-> published]
APIError == [kind |-> "error", entry_id |-> "-", published |-> 0]

\* what the search of a category may yield, newest first: nothing, papers of
\* the time range, a paper listed twice, an old paper that ends the loop, an
\* exception at once or after a result, a result that cannot be converted
CategoryFeeds ==
    { <<>>,
      <<Result("x1", 2)>>,
      <<Result("x1", 2), Result("x2", 2)>>,
      <<Result("x2", 2), Result("x2", 2)>>,
      <<Result("x2", 2), Result("x1", 0)>>,
      <<Result("x3", 0), Result("x1", 2)>>,
      <<Result("x1", 2), APIError, Result("x3", 2)>>,
      <<APIError, Result("x3", 2)>>,
      <<Malformed("x2", 2), Result("x1", 2)>> }

CategoryLists == UNION {[1..k -> CategoryFeeds] : k \in 0..MaxCategories}

\* Paper(...) of a result
PaperOf(result) == NewPaper(<<"a">>, <<"b">>, result.entry_id, "ArXiv")

\* a loop over the results that does not look at seen_urls
RECURSIVE ResultLoopNoSeen(_, _, _, _)
ResultLoopNoSeen(results, cutoff_date, k, acc) ==
    IF k > Len(results) THEN acc
    ELSE LET result == results[k]
         IN IF result.kind = "error" THEN [acc EXCEPT !.raised = TRUE]
            ELSE IF result.published < cutoff_date THEN acc
            ELSE IF result.kind = "malformed"
                 THEN [acc EXCEPT !.seen_urls = @ \cup {result.entry_id},
                                  !.raised = TRUE]
            ELSE ResultLoopNoSeen(results, cutoff_date, k + 1,
                     [acc EXCEPT !.seen_urls = @ \cup {result.entry_id},
                                 !.all_papers = Append(@, PaperOf(result))])

\* the loop over the results of one category: it ends at the first result
\* before the cutoff, skips an entry id it has seen, and an exception of the
\* iteration, or of Paper(...) after the entry id was added to seen_urls,
\* leaves it with what was appended so far
RECURSIVE ResultLoop(_, _, _, _)
ResultLoop(results, cutoff_date, k, acc) ==
    IF k > Len(results) THEN acc
    ELSE LET result == results[k]
         IN IF result.kind = "error" THEN [acc EXCEPT !.raised = TRUE]
            ELSE IF result.published < cutoff_date THEN acc
            ELSE IF result.entry_id \in acc.seen_urls
                 THEN ResultLoop(results, cutoff_date, k + 1, acc)
            ELSE IF result.kind = "malformed"
                 THEN [acc EXCEPT !.seen_urls = @ \cup {result.entry_id},
                                  !.raised = TRUE]
                 ELSE ResultLoop(results, cutoff_date, k + 1,
                          [acc EXCEPT !.seen_urls = @ \cup {result.entry_id},
                                      !.all_papers = Append(@, PaperOf(result))])

\* the loop over the categories; acc.processed lists the categories whose
\* search was made and whether it ended in the except branch
RECURSIVE CategoryLoop(_, _, _, _)
CategoryLoop(categories, cutoff_date, i, acc) ==
    IF i > Len(categories) THEN acc
    ELSE LET looped == ResultLoop(categories[i], cutoff_date, 1,
                                  [all_papers |-> acc.all_papers,
                                   seen_urls |-> acc.seen_urls,
                                   raised |-> FALSE])
         IN CategoryLoop(categories, cutoff_date, i + 1,
                [all_papers |-> looped.all_papers,
                 seen_urls |-> looped.seen_urls,
                 processed |-> Append(acc.processed,
                                      [category |-> i, raised |-> looped.raised])])

\* ArXivFetcher.fetch_papers(days)
ArxivFetchPapers(categories, days, nowv) ==
    CategoryLoop(categories, nowv - days, 1,
                 [all_papers |-> <<>>, seen_urls |-> {}, processed |-> <<>>])

\* the days argument of fetch_papers
FetchDays == {1, 7}

InitArxiv ==
    /\ use_llm = FALSE
    /\ scorer = NoScorer
    /\ primary_keywords = <<>>
    /\ secondary_keywords = <<>>
    /\ papers = <<>>
    /\ min_score = 1
    /\ primary_matches = <<>>
    /\ secondary_matches = <<>>
    /\ kw_result = NoResult
    /\ filtered = <<>>
    /\ groups = NoGroups
    /\ now = 2
    /\ history = NoCall
    /\ ncalls = 0
    /\ runs = NoRuns
    /\ cache_file = NoFile
    /\ args = NoArgs
    /\ config = NoConfig
    /\ log = NoLog
    /\ pc = "fetcher"

\* ArXivFetcher(categories).fetch_papers(days)
FetchPapersCall ==
    /\ pc = "fetcher"
    /\ \E categories \in CategoryLists, days \in FetchDays :
        \E res \in {ArxivFetchPapers(categories, days, now)} :
           /\ papers' = res.all_papers
           /\ history' = [op |-> "fetch_papers", n |-> ncalls + 1,
                          categories |-> categories, days |-> days,
                          processed |-> res.processed,
                          seen_urls |-> res.seen_urls]
    /\ ncalls' = ncalls + 1
    /\ pc' = "returned"
    /\ UNCHANGED <<min_score, filtered, groups, use_llm, scorer, now>>
    /\ UNCHANGED <<kwVars, raceVars, mainVars>>

NextArxiv == FetchPapersCall

SpecArxiv == InitArxiv /\ [][NextArxiv]_vars

-----------------------------------------------------------------------------
(* Calls on an LLMPaperScorer and its cache directory *)

\* papers that share title and abstract and differ in url and source, papers
\* with no abstract, with an empty one and with one of whitespace, papers
\* with "|" in their text
LLMPaperPool ==
    { NewPaper(<<"a">>, <<"b", "|", "c">>, "u1", "ArXiv"),
      NewPaper(<<"a">>, <<"b", "|", "c">>, "u2", "Nature"),
      NewPaper(<<"a", "|", "b">>, <<"c">>, "u1", "ArXiv"),
      NewPaper(<<"a">>, None, "u3", "SAGE"),
      NewPaper(<<"a">>, <<>>, "u3", "SAGE"),
      NewPaper(<<"a">>, <<" ">>, "u3", "SAGE") }

\* what the provider may answer to a call
Responses ==
    { [kind |-> "json", value |-> Decision(80)],
      [kind |-> "json", value |-> DecisionNoTopics(30)],
      [kind |-> "json", value |-> DecisionNoRelevant(75)],
      [kind |-> "json", value |-> DecisionOutOfRange],
      [kind |-> "embedded", value |-> Decision(60)],
      [kind |-> "text"],
      [kind |-> "nonobject"],
      [kind |-> "error"] }

\* the provider argument of LLMPaperScorer
Providers == {"dashscope", "azure", "other"}

\* the research_interests argument of LLMPaperScorer
Interests == {"i1", "i2"}

InitLLM ==
    /\ use_llm = TRUE
    /\ \E provider \in Providers, interests \in Interests :
           scorer = NewScorer(provider, interests, EmptyCache)
    /\ primary_keywords = <<>>
    /\ secondary_keywords = <<>>
    /\ papers = <<>>
    /\ min_score = 50
    /\ primary_matches = <<>>
    /\ secondary_matches = <<>>
    /\ kw_result = NoResult
    /\ filtered = <<>>
    /\ groups = NoGroups
    /\ now = 0
    /\ history = NoCall
    /\ ncalls = 0
    /\ runs = NoRuns
    /\ cache_file = NoFile
    /\ args = NoArgs
    /\ config = NoConfig
    /\ log = NoLog
    /\ pc = "scorer"

\* scorer.score_paper(paper)
ScorePaperCall ==
    /\ pc = "scorer"
    /\ ncalls < MaxCalls
    /\ \E paper \in LLMPaperPool, resp \in Responses :
        \E res \in {ScorePaperLLM(scorer, paper, resp, now)} :
           /\ scorer' = res.sc
           /\ history' =
                 [op |-> "score_paper", n |-> ncalls + 1,
                  paper |-> paper, key |-> res.key,
                  provider |-> scorer.provider,
                  research_interests |-> scorer.research_interests,
                  resp |-> resp, request |-> res.request,
                  api_calls |-> res.sc.api_calls - scorer.api_calls,
                  cache_hits |-> res.sc.cache_hits - scorer.cache_hits,
                  cache_misses |-> res.sc.cache_misses - scorer.cache_misses,
                  out |-> res.out]
    /\ ncalls' = ncalls + 1
    /\ UNCHANGED <<papers, min_score, filtered, groups, use_llm, now, pc>>
    /\ UNCHANGED <<kwVars, raceVars, mainVars>>

\* another LLMPaperScorer is constructed on the same cache directory
Reconstruct ==
    /\ pc = "scorer"
    /\ ncalls < MaxCalls
    /\ \E provider \in Providers, interests \in Interests :
        /\ <<provider, interests>> # <<scorer.provider, scorer.research_interests>>
        /\ scorer' = NewScorer(provider, interests, scorer.cache)
    /\ ncalls' = ncalls + 1
    /\ UNCHANGED <<papers, min_score, filtered, groups, use_llm, now, history, pc>>
    /\ UNCHANGED <<kwVars, raceVars, mainVars>>

\* the days argument of clean_old_cache
SweepDays == {0, 1}

\* time passes: a day
Tick ==
    /\ pc \in {"scorer", "cache"}
    /\ now < MaxDays
    /\ now' = now + 1
    /\ UNCHANGED <<papers, min_score, filtered, groups, use_llm, scorer,
                   history, ncalls, pc>>
    /\ UNCHANGED <<kwVars, raceVars, mainVars>>

\* scorer.clean_old_cache(days)
CleanOldCacheCall ==
    /\ pc \in {"scorer", "cache"}
    /\ ncalls < MaxCalls
    /\ \E days \in SweepDays :
        \E res \in {CleanOldCache(scorer, days, now)} :
           /\ scorer' = res.sc
           /\ history' = [op |-> "clean_old_cache", n |-> ncalls + 1,
                          days |-> days,
                          removed_count |-> res.removed_count]
    /\ ncalls' = ncalls + 1
    /\ UNCHANGED <<papers, min_score, filtered, groups, use_llm, now, pc>>
    /\ UNCHANGED <<kwVars, raceVars, mainVars>>

NextLLM == ScorePaperCall \/ Reconstruct

SpecLLM == InitLLM /\ [][NextLLM]_vars

\* one scorer whose cache directory is swept from time to time
InitExpiry ==
    /\ InitLLM
    /\ scorer = NewScorer("dashscope", "i1", EmptyCache)

NextExpiry == ScorePaperCall \/ Tick \/ CleanOldCacheCall

SpecExpiry == InitExpiry /\ [][NextExpiry]_vars

-----------------------------------------------------------------------------
(* The cache methods of an LLMPaperScorer, on a directory that may hold     *)
(* files left by something else than _save_to_cache                         *)

\* the keys of the calls
CacheKeys == {GetCacheKey(<<"a">>, <<"b">>), GetCacheKey(<<"c">>, <<>>)}

\* the decisions handed to _save_to_cache
SavedDecisions == {Decision(80), DecisionNoTopics(30)}

\* files of the directory that clean_old_cache has to skip: one that is no
\* JSON, one without cached_at, one whose cached_at is no timestamp
ForeignCache ==
    (<<"x">> :> Unparsable)
    @@ (<<"y">> :> Decision(60))
    @@ (<<"z">> :> [cached_at |-> [text |-> "yesterday"]])

InitCache ==
    /\ use_llm = TRUE
    /\ \E cache \in {EmptyCache, ForeignCache} :
           scorer = NewScorer("dashscope", "i1", cache)
    /\ primary_keywords = <<>>
    /\ secondary_keywords = <<>>
    /\ papers = <<>>
    /\ min_score = 50
    /\ primary_matches = <<>>
    /\ secondary_matches = <<>>
    /\ kw_result = NoResult
    /\ filtered = <<>>
    /\ groups = NoGroups
    /\ now = 0
    /\ history = NoCall
    /\ ncalls = 0
    /\ runs = NoRuns
    /\ cache_file = NoFile
    /\ args = NoArgs
    /\ config = NoConfig
    /\ log = NoLog
    /\ pc = "cache"

\* scorer._save_to_cache(cache_key, decision)
SaveToCacheCall ==
    /\ pc = "cache"
    /\ ncalls < MaxCalls
    /\ \E cache_key \in CacheKeys, decision \in SavedDecisions :
        /\ scorer' = SaveToCache(scorer, cache_key, decision, now)
        /\ history' = [op |-> "_save_to_cache", n |-> ncalls + 1,
                       key |-> cache_key, decision |-> decision, now |-> now]
    /\ ncalls' = ncalls + 1
    /\ UNCHANGED <<papers, min_score, filtered, groups, use_llm, now, pc>>
    /\ UNCHANGED <<kwVars, raceVars, mainVars>>

\* scorer._load_from_cache(cache_key)
LoadFromCacheCall ==
    /\ pc = "cache"
    /\ ncalls < MaxCalls
    /\ \E cache_key \in CacheKeys \cup DOMAIN ForeignCache :
        \E res \in {LoadFromCache(scorer, cache_key)} :
           /\ scorer' = res.sc
           /\ history' = [op |-> "_load_from_cache", n |-> ncalls + 1,
                          key |-> cache_key, returned |-> res.cached,
                          raised |-> res.raised]
    /\ ncalls' = ncalls + 1
    /\ UNCHANGED <<papers, min_score, filtered, groups, use_llm, now, pc>>
    /\ UNCHANGED <<kwVars, raceVars, mainVars>>

NextCache == SaveToCacheCall \/ LoadFromCacheCall \/ Tick \/ CleanOldCacheCall

SpecCache == InitCache /\ [][NextCache]_vars

-----------------------------------------------------------------------------
(* One call of score_papers_batch on a scorer with an empty cache *)

\* what the provider may answer during the batch
BatchResponses ==
    { [kind |-> "json", value |-> Decision(80)],
      [kind |-> "json", value |-> Decision(30)],
      [kind |-> "json", value |-> DecisionNoRelevant(75)],
      [kind |-> "error"] }

InitBatch ==
    /\ use_llm = TRUE
    /\ scorer = NewScorer("dashscope", "i1", EmptyCache)
    /\ primary_keywords = <<>>
    /\ secondary_keywords = <<>>
    /\ papers \in LLMRunLists
    /\ min_score \in LLMMinScores
    /\ primary_matches = <<>>
    /\ secondary_matches = <<>>
    /\ kw_result = NoResult
    /\ filtered = <<>>
    /\ groups = NoGroups
    /\ now = 0
    /\ history = NoCall
    /\ ncalls = 0
    /\ runs = NoRuns
    /\ cache_file = NoFile
    /\ args = NoArgs
    /\ config = NoConfig
    /\ log = NoLog
    /\ pc = "batch"

\* scorer.score_papers_batch(papers, min_score)
ScoreBatchCall ==
    /\ pc = "batch"
    /\ \E resps \in [1..Len(papers) -> BatchResponses] :
        \E res \in {ScorePapersBatch(scorer, papers, [i \in 1..Len(papers) |-> i],
                                      resps, min_score, now)} :
           /\ papers' = res.papers
           /\ scorer' = res.sc
           /\ filtered' = res.filtered
           /\ history' = [op |-> "score_papers_batch", n |-> ncalls + 1,
                          resps |-> resps, calls |-> res.calls,
                          raised |-> res.raised]
           /\ pc' = IF res.raised THEN "raised" ELSE "returned"
    /\ ncalls' = ncalls + 1
    /\ UNCHANGED <<min_score, groups, use_llm, now>>
    /\ UNCHANGED <<kwVars, raceVars, mainVars>>

NextBatch == ScoreBatchCall

SpecBatch == InitBatch /\ [][NextBatch]_vars

-----------------------------------------------------------------------------
(* Two scorer processes on one cache directory that score the same title    *)
(* and abstract: the steps of score_paper of each, interleaved.  The cache  *)
(* file of the key is a sequence of tokens of JSON text.                    *)

Runs == {"run1", "run2"}

OpenBrace == [tok |-> "{"]
CloseBrace == [tok |-> "}"]
Member(field, value) == [tok |-> "member", field |-> field, value |-> value]

\* the order in which json.dump writes the fields of cache_data
FieldOrder ==
    <<"relevant", "score", "confidence", "reasoning", "topics", "cached_at">>

\* json.dump(cache_data, f, separators=(',', ':')): the text written
JSONText(data) ==
    LET present(f) == f \in DOMAIN data
        fields == SelectSeq(FieldOrder, present)
    IN <<OpenBrace>>
       \o [i \in 1..Len(fields) |-> Member(fields[i], data[fields[i]])]
       \o <<CloseBrace>>

\* json.load(f): the object of the text, or JSONDecodeError when the text is
\* empty, or goes on after the closing brace of the object
JSONLoad(text) ==
    IF /\ Len(text) >= 2
       /\ text[1] = OpenBrace
       /\ text[Len(text)] = CloseBrace
       /\ \A i \in 2..(Len(text) - 1) : text[i].tok = "member"
    THEN [ok |-> TRUE,
          value |-> [f \in {text[i].field : i \in 2..(Len(text) - 1)} |->
                        text[CHOOSE i \in 2..(Len(text) - 1) : text[i].field = f].value]]
    ELSE [ok |-> FALSE, value |-> Absent]

\* a write of text at offset 0 of a file holding old: what lies behind the
\* written text stays
WriteAtStart(old, text) == text \o SubSeq(old, Len(text) + 1, Len(old))

\* the answers of the provider to the two processes
RaceDecisions == {Decision(80), DecisionNoTopics(30)}

NoOut == [kind |-> "none"]

\* a process that enters score_paper
NewRun ==
    [pc |-> "exists", cache_hits |-> 0, cache_misses |-> 0, api_calls |-> 0,
     decision |-> Absent, out |-> NoOut]

InitRace ==
    /\ use_llm = TRUE
    /\ scorer = NoScorer
    /\ primary_keywords = <<>>
    /\ secondary_keywords = <<>>
    /\ papers = <<>>
    /\ min_score = 50
    /\ primary_matches = <<>>
    /\ secondary_matches = <<>>
    /\ kw_result = NoResult
    /\ filtered = <<>>
    /\ groups = NoGroups
    /\ now = 0
    /\ history = NoCall
    /\ ncalls = 0
    /\ runs = [p \in Runs |-> NewRun]
    /\ cache_file \in {NoFile, JSONText(CacheData(Decision(60), 0))}
    /\ args = NoArgs
    /\ config = NoConfig
    /\ log = NoLog
    /\ pc = "race"

raceFrame ==
    <<papers, min_score, filtered, groups, use_llm, pc, kwVars, llmVars,
      mainVars>>

\* _load_from_cache: if cache_file.exists(); without the file it returns
\* None and score_paper counts the miss
ExistsCheck(p) ==
    /\ pc = "race"
    /\ runs[p].pc = "exists"
    /\ runs' = [runs EXCEPT ![p] =
                   IF cache_file = NoFile
                   THEN [@ EXCEPT !.pc = "call", !.cache_misses = @ + 1]
                   ELSE [@ EXCEPT !.pc = "read"]]
    /\ UNCHANGED cache_file
    /\ UNCHANGED raceFrame

\* _load_from_cache: open(cache_file), cache_hits += 1, json.load(f), and the
\* return of score_paper on the hit; an exception of json.load leaves
\* score_paper
ReadFile(p) ==
    /\ pc = "race"
    /\ runs[p].pc = "read"
    /\ \E cached \in {JSONLoad(cache_file)} :
          runs' = [runs EXCEPT ![p] =
              [@ EXCEPT !.pc = "done",
                        !.cache_hits = @ + 1,
                        !.out = IF ~cached.ok THEN Propagated("JSONDecodeError")
                                ELSE IF RequiredFields \subseteq DOMAIN cached.value
                                     THEN ResultTuple(cached.value, TRUE)
                                     ELSE Propagated("KeyError")]]
    /\ UNCHANGED cache_file
    /\ UNCHANGED raceFrame

\* score_paper: api_calls += 1 and the call of the provider, which answers
\* with a decision
CallLLM(p) ==
    /\ pc = "race"
    /\ runs[p].pc = "call"
    /\ \E decision \in RaceDecisions :
          runs' = [runs EXCEPT ![p] =
              [@ EXCEPT !.pc = "open", !.api_calls = @ + 1,
                        !.decision = decision]]
    /\ UNCHANGED cache_file
    /\ UNCHANGED raceFrame

\* _save_to_cache: open(cache_file, "w") creates the file or truncates it
OpenForWrite(p) ==
    /\ pc = "race"
    /\ runs[p].pc = "open"
    /\ cache_file' = <<>>
    /\ runs' = [runs EXCEPT ![p].pc = "dump"]
    /\ UNCHANGED raceFrame

\* _save_to_cache: json.dump and the close of the file, which writes the
\* text at the start of the file; then the return of score_paper
DumpAndClose(p) ==
    /\ pc = "race"
    /\ runs[p].pc = "dump"
    /\ cache_file' = WriteAtStart(cache_file,
                                  JSONText(CacheData(runs[p].decision, now)))
    /\ runs' = [runs EXCEPT ![p] =
                   [@ EXCEPT !.pc = "done",
                             !.out = ResultTuple(runs[p].decision, FALSE)]]
    /\ UNCHANGED raceFrame

NextRace ==
    \E p \in Runs :
        \/ ExistsCheck(p)
        \/ ReadFile(p)
        \/ CallLLM(p)
        \/ OpenForWrite(p)
        \/ DumpAndClose(p)

SpecRace == InitRace /\ [][NextRace]_vars

-----------------------------------------------------------------------------
(* Properties of keyword scoring *)

SeqToSet(s) == {s[i] : i \in 1..Len(s)}

\* how many times x is an element of the list s
Occurs(s, x) == Cardinality({i \in 1..Len(s) : s[i] = x})

\* value of a dict at k, 0 when k is no key
DictGet(d, k) == IF DictHas(d, k)
                 THEN (CHOOSE pair \in SeqToSet(d) : pair[1] = k)[2]
                 ELSE 0

\* the lower-cased text 'title abstract' of the paper scored
ScoredText == Lower(SearchableText(papers[1]))

\* total of the matches of the keywords of S in text
RECURSIVE TotalOccurrences(_, _)
TotalOccurrences(S, text) ==
    IF S = {} THEN 0
    ELSE LET k == CHOOSE k \in S : TRUE
         IN FindAll(text, k) + TotalOccurrences(S \ {k}, text)

\* C1: the score returned by score_paper is 10 times the number of
\* occurrences of the primary keywords plus 3 times the number of occurrences
\* of the secondary keywords in the lower-cased text, each configured keyword
\* counted with all its occurrences.
C1_ScoreFormula ==
    pc = "scored" =>
        kw_result.score =
            10 * TotalOccurrences(SeqToSet(primary_keywords), ScoredText)
            + 3 * TotalOccurrences(SeqToSet(secondary_keywords), ScoredText)

\* a primary keyword found twice and a secondary keyword found once: 23
C1_Witness ==
    /\ pc = "scored"
    /\ primary_matches = << << <<"a">>, 2 >> >>
    /\ secondary_matches = << << <<"a", " ", "a">>, 1 >> >>
    /\ kw_result.score = 23
    /\ Len(kw_result.matched_keywords) = 2

\* C2: a keyword with at least one occurrence is in matched_keywords exactly
\* once, a keyword with none is not in it, whatever the keyword lists.
C2_MatchedExactlyOnce ==
    pc = "scored" =>
        \A kw \in SeqToSet(primary_keywords) \cup SeqToSet(secondary_keywords) :
            Occurs(kw_result.matched_keywords, kw) =
                IF FindAll(ScoredText, kw) > 0 THEN 1 ELSE 0

\* a keyword made of word characters only
IsWord(kw) == kw # <<>> /\ \A i \in 1..Len(kw) : kw[i] \in WordChars

\* kw stands at offset p of text as a whole word: the characters next to it,
\* if any, are no word characters
StandaloneAt(text, kw, p) ==
    /\ SubSeq(text, p + 1, p + Len(kw)) = kw
    /\ p = 0 \/ text[p] \notin WordChars
    /\ p + Len(kw) = Len(text) \/ text[p + Len(kw) + 1] \notin WordChars

StandaloneCount(text, kw) ==
    Cardinality({p \in 0..(Len(text) - Len(kw)) : StandaloneAt(text, kw, p)})

\* C3: a keyword that is a word is counted once for each place where it
\* stands as a whole word, and not where it is part of a longer word; with no
\* such place it is not matched and adds no points.
C3_WholeWordOnly ==
    pc = "scored" =>
        /\ \A kw \in SeqToSet(primary_keywords) :
              IsWord(kw) =>
                  DictGet(primary_matches, kw) = StandaloneCount(ScoredText, kw)
        /\ \A kw \in SeqToSet(secondary_keywords) :
              IsWord(kw) =>
                  DictGet(secondary_matches, kw) = StandaloneCount(ScoredText, kw)
        /\ \A kw \in SeqToSet(primary_keywords) \cup SeqToSet(secondary_keywords) :
              (IsWord(kw) /\ StandaloneCount(ScoredText, kw) = 0) =>
                  Occurs(kw_result.matched_keywords, kw) = 0

\* text "a aa" and keyword "a": the word "a" counts once, the "a"s of "aa" do not
C3_Witness ==
    /\ pc = "scored"
    /\ ScoredText = <<"a", " ", "a", "a">>
    /\ primary_keywords = << <<"a">> >>
    /\ primary_matches = << << <<"a">>, 1 >> >>
    /\ kw_result.score = 10

-----------------------------------------------------------------------------
(* Properties of filtering, sorting and grouping in a run *)

Filtered == pc \in {"filtered", "grouped"}

\* what score_paper returns for the paper at r
KwScore(r) == ScorePaperKw(primary_keywords, secondary_keywords, papers[r])

\* the papers filter_papers has to retain
Retained == {r \in 1..Len(papers) : KwScore(r).score >= min_score}

\* the list is ordered by non-increasing relevance_score
NonIncreasing(refs) ==
    \A i, j \in 1..Len(refs) :
        i < j => papers[refs[i]].relevance_score >= papers[refs[j]].relevance_score

\* C4: filter_papers returns exactly the papers whose score is at least
\* min_score, each once, with relevance_score and matched_keywords set to what
\* score_paper returns for them, ordered by non-increasing relevance_score.
C4_FilterPapers ==
    (Filtered /\ ~use_llm) =>
        /\ SeqToSet(filtered) = Retained
        /\ Len(filtered) = Cardinality(Retained)
        /\ \A r \in Retained :
              /\ papers[r].relevance_score = KwScore(r).score
              /\ papers[r].matched_keywords = KwScore(r).matched_keywords
        /\ NonIncreasing(filtered)

\* three papers scoring 3, 0 and 20 filtered with min_score 1: the second is
\* dropped and the third comes first
C4_Witness ==
    /\ pc = "filtered"
    /\ ~use_llm
    /\ min_score = 1
    /\ Len(papers) = 3
    /\ filtered = <<3, 1>>
    /\ papers[3].relevance_score = 20
    /\ papers[1].relevance_score = 3
    /\ KwScore(2).score = 0

\* C5: in the list returned by filter_papers and by score_papers_batch, papers
\* with equal relevance_score are in the order they have in the input list.
C5_SortStable ==
    Filtered =>
        \A i, j \in 1..Len(filtered) :
            (i < j /\ papers[filtered[i]].relevance_score
                          = papers[filtered[j]].relevance_score)
                => filtered[i] < filtered[j]

\* a batch scored 50, 75, 50: the two papers scored 50 keep their order behind
\* the one scored 75
C5_Witness ==
    /\ pc = "filtered"
    /\ use_llm
    /\ filtered = <<2, 1, 3>>
    /\ papers[1].relevance_score = 50
    /\ papers[2].relevance_score = 75
    /\ papers[3].relevance_score = 50

\* r is in exactly one of the groups, once
InOneGroup(r) ==
    Occurs(groups.high, r) + Occurs(groups.medium, r) + Occurs(groups.low, r) = 1

\* the groups hold the papers of the input list and no other
GroupsPartitionInput ==
    /\ \A r \in SeqToSet(filtered) : InOneGroup(r)
    /\ SeqToSet(groups.high) \cup SeqToSet(groups.medium) \cup SeqToSet(groups.low)
           = SeqToSet(filtered)

\* C6: PaperFilter.group_papers_by_relevance puts every input paper in exactly
\* one group: relevance_score >= 20 in high, 10 <= relevance_score < 20 in
\* medium, the others in low.
C6_KeywordGroups ==
    (pc = "grouped" /\ ~use_llm) =>
        /\ GroupsPartitionInput
        /\ \A r \in SeqToSet(filtered) :
              LET score == papers[r].relevance_score
              IN /\ (score >= 20) <=> (r \in SeqToSet(groups.high))
                 /\ (score >= 10 /\ score < 20) <=> (r \in SeqToSet(groups.medium))
                 /\ (score < 10) <=> (r \in SeqToSet(groups.low))

\* papers scored 20, 19 and 9 are grouped high, medium and low
C6_Witness ==
    /\ pc = "grouped"
    /\ ~use_llm
    /\ Len(filtered) = 3
    /\ papers[filtered[1]].relevance_score = 20
    /\ papers[filtered[2]].relevance_score = 19
    /\ papers[filtered[3]].relevance_score = 9
    /\ groups.high = <<filtered[1]>>
    /\ groups.medium = <<filtered[2]>>
    /\ groups.low = <<filtered[3]>>

\* C7: LLMPaperScorer.group_papers_by_relevance puts every input paper in
\* exactly one group: relevance_score >= 75 in high, 50 <= relevance_score < 75
\* in medium, the others in low.
C7_LLMGroups ==
    (pc = "grouped" /\ use_llm) =>
        /\ GroupsPartitionInput
        /\ \A r \in SeqToSet(filtered) :
              LET score == papers[r].relevance_score
              IN /\ (score >= 75) <=> (r \in SeqToSet(groups.high))
                 /\ (score >= 50 /\ score < 75) <=> (r \in SeqToSet(groups.medium))
                 /\ (score < 50) <=> (r \in SeqToSet(groups.low))

\* papers scored 75, 74 and 49 are grouped high, medium and low
C7_Witness ==
    /\ pc = "grouped"
    /\ use_llm
    /\ Len(filtered) = 3
    /\ papers[filtered[1]].relevance_score = 75
    /\ papers[filtered[2]].relevance_score = 74
    /\ papers[filtered[3]].relevance_score = 49
    /\ groups.high = <<filtered[1]>>
    /\ groups.medium = <<filtered[2]>>
    /\ groups.low = <<filtered[3]>>

\* position of r in a list without repetition
IndexOf(refs, r) == CHOOSE i \in 1..Len(refs) : refs[i] = r

\* the papers of group are in the order they have in refs
InOrderOf(group, refs) ==
    \A i, j \in 1..Len(group) :
        i < j => IndexOf(refs, group[i]) < IndexOf(refs, group[j])

\* C8: in each group returned by group_papers_by_relevance, of either scorer,
\* the papers are in the order of the input list; the input being the sorted
\* list of the filter, each group is ordered by non-increasing relevance_score.
C8_GroupsKeepOrder ==
    pc = "grouped" =>
        \A g \in {groups.high, groups.medium, groups.low} :
            InOrderOf(g, filtered) /\ NonIncreasing(g)

\* a medium group of two papers with different scores
C8_Witness ==
    /\ pc = "grouped"
    /\ Len(groups.medium) = 2
    /\ papers[groups.medium[1]].relevance_score
           > papers[groups.medium[2]].relevance_score

-----------------------------------------------------------------------------
(* Properties of the decision cache *)

\* this step is a call of score_paper that follows another call
CallAfterCall ==
    /\ history.op = "score_paper"
    /\ history'.op = "score_paper"
    /\ history'.n > history.n

\* the result is no error result
NonError(out) == out.kind = "return" /\ "error" \notin DOMAIN out.metadata

\* both results carry the same relevant, score, confidence, reasoning, topics
SameDecision(o1, o2) ==
    /\ NonError(o1)
    /\ NonError(o2)
    /\ o1.relevant = o2.relevant
    /\ o1.score = o2.score
    /\ o1.metadata.confidence = o2.metadata.confidence
    /\ o1.metadata.reasoning = o2.metadata.reasoning
    /\ o1.metadata.topics = o2.metadata.topics

\* the call was answered from the cache
CacheHit(h) ==
    /\ h.api_calls = 0
    /\ h.out.kind = "return"
    /\ "cached" \in DOMAIN h.out.metadata
    /\ h.out.metadata.cached

\* C9 as stated: two calls of score_paper on the same (title, abstract)
\* issue one provider call together, the second being a cache hit with the
\* decision of the first.
C9_OneCallForTwo ==
    [][(CallAfterCall /\ history'.paper.title = history.paper.title
                      /\ history'.paper.abstract = history.paper.abstract)
         => /\ history.api_calls + history'.api_calls = 1
            /\ CacheHit(history')
            /\ SameDecision(history.out, history'.out)]_vars

\* C9, amended: when a call of score_paper returns a result that is no error
\* result, the next call on the same (title, abstract) issues no provider call
\* and is a cache hit returning the same relevant, score, confidence,
\* reasoning and topics; the two calls issue at most one provider call.
C9_SecondCallHits ==
    [][(CallAfterCall /\ history'.paper.title = history.paper.title
                      /\ history'.paper.abstract = history.paper.abstract
                      /\ NonError(history.out))
         => /\ history.api_calls + history'.api_calls <= 1
            /\ history'.cache_hits = 1
            /\ CacheHit(history')
            /\ SameDecision(history.out, history'.out)]_vars

\* a scorer that made one provider call and then answered from the cache
C9_Witness ==
    /\ history.op = "score_paper"
    /\ CacheHit(history)
    /\ scorer.api_calls = 1
    /\ scorer.cache_misses = 1
    /\ scorer.cache_hits = 1
    /\ DOMAIN scorer.cache = {history.key}

\* C10: the cache key of score_paper is the same for two papers with the same
\* title and the same abstract, a missing abstract counting as the empty one,
\* whatever their url and source and whatever the provider and the
\* research_interests of the scorer.
C10_KeyFromTitleAndAbstract ==
    [][(CallAfterCall /\ history'.paper.title = history.paper.title
                      /\ AbstractOrEmpty(history'.paper.abstract)
                             = AbstractOrEmpty(history.paper.abstract))
         => history'.key = history.key]_vars

\* a paper with another url and source than the one whose decision is cached,
\* scored by a scorer constructed after that decision was cached: a cache hit
C10_Witness ==
    /\ history.op = "score_paper"
    /\ history.paper.url = "u2"
    /\ history.paper.source = "Nature"
    /\ CacheHit(history)
    /\ scorer.api_calls = 0
    /\ scorer.cache_hits = 1
    /\ DOMAIN scorer.cache = {history.key}
    /\ scorer.cache[history.key].score = 80

\* the two papers have the same title and the same abstract, a missing
\* abstract counting as the empty one
SamePair(p1, p2) ==
    /\ p1.title = p2.title
    /\ AbstractOrEmpty(p1.abstract) = AbstractOrEmpty(p2.abstract)

\* C11: two papers with different (title, abstract) pairs never share a cache
\* entry: a call of score_paper answered from the entry under the key of the
\* call before it is a call on the same (title, abstract) pair.
C11_EntryOfItsPair ==
    [][(CallAfterCall /\ history'.cache_hits = 1 /\ history'.key = history.key)
         => SamePair(history.paper, history'.paper)]_vars

-----------------------------------------------------------------------------
(* Properties of score_paper on a cache miss *)

\* the external call of the miss failed: the client raised, the content holds
\* no JSON at all, or the provider is none of the two known ones
CallFailed(h) ==
    \/ h.resp.kind \in {"error", "text"}
    \/ h.provider \notin {"dashscope", "azure"}

\* the error result: relevant False, score 0, an error message, cached False
IsErrorResult(out) ==
    /\ out.kind = "return"
    /\ out.relevant = FALSE
    /\ out.score = 0
    /\ DOMAIN out.metadata = {"error", "cached"}
    /\ out.metadata.cached = FALSE

\* C12: a call of score_paper that misses the cache returns to its caller,
\* and when the external call or the parsing of its answer failed it returns
\* relevant False, score 0 and a metadata of an error message and cached False.
C12_MissNeverRaises ==
    (history.op = "score_paper" /\ history.cache_misses = 1) =>
        /\ history.out.kind = "return"
        /\ CallFailed(history) => IsErrorResult(history.out)

\* a miss of a scorer with an unknown provider, after a miss whose call raised
C12_Witness ==
    /\ history.op = "score_paper"
    /\ history.cache_misses = 1
    /\ history.provider = "other"
    /\ IsErrorResult(history.out)
    /\ scorer.cache_misses = 1
    /\ scorer.api_calls = 1
    /\ scorer.cache = EmptyCache

\* the values a decision may hold
ValidDecision(d) ==
    /\ "relevant" \in DOMAIN d /\ d.relevant \in BOOLEAN
    /\ "score" \in DOMAIN d /\ d.score \in 0..100
    /\ "confidence" \in DOMAIN d /\ d.confidence \in {"high", "medium", "low"}

\* C19: every decision score_paper returns and every entry it writes to the
\* cache has a boolean relevant, a score in 0..100 and a confidence that is
\* high, medium or low.
C19_DecisionsValid ==
    /\ \A k \in DOMAIN scorer.cache : ValidDecision(scorer.cache[k])
    /\ (history.op = "score_paper" /\ NonError(history.out)) =>
           /\ history.out.relevant \in BOOLEAN
           /\ history.out.score \in 0..100
           /\ history.out.metadata.confidence \in {"high", "medium", "low"}

-----------------------------------------------------------------------------
(* Properties of the cache methods and of the expiry sweep *)

\* this step is a call of the method op
CallOf(op) == ncalls' = ncalls + 1 /\ history'.op = op

\* C16: _load_from_cache after _save_to_cache of the same key returns the
\* decision saved, every field unchanged, plus the cached_at of the write; an
\* entry stays as it is until a sweep removes it or the key is saved again;
\* _load_from_cache of a key with no entry returns None, does not raise and
\* changes nothing.
C16_PutThenGet ==
    [][/\ (CallOf("_load_from_cache") /\ history.op = "_save_to_cache"
                                      /\ history'.key = history.key)
            => /\ ~history'.raised
               /\ DOMAIN history'.returned
                      = DOMAIN history.decision \cup {"cached_at"}
               /\ \A f \in DOMAIN history.decision :
                      history'.returned[f] = history.decision[f]
               /\ history'.returned.cached_at = Isoformat(history.now)
       /\ (CallOf("_load_from_cache") /\ history'.key \notin DOMAIN scorer.cache)
            => /\ history'.returned = Absent
               /\ ~history'.raised
               /\ scorer' = scorer
       /\ \A k \in DOMAIN scorer.cache :
            \/ k \in DOMAIN scorer'.cache /\ scorer'.cache[k] = scorer.cache[k]
            \/ CallOf("_save_to_cache") /\ history'.key = k
            \/ CallOf("clean_old_cache") /\ k \notin DOMAIN scorer'.cache]_vars

\* a decision saved on day 0 and loaded on day 2, the third call on the scorer
C16_Witness ==
    /\ pc = "cache"
    /\ history.op = "_load_from_cache"
    /\ history.n = 3
    /\ now = 2
    /\ ~history.raised
    /\ history.returned =
           [relevant |-> TRUE, score |-> 80, confidence |-> "high",
            reasoning |-> "r", topics |-> <<"t">>, cached_at |-> [iso |-> 0]]
    /\ scorer.cache_hits = 1

\* C17: across calls of score_paper and clean_old_cache on one scorer, an
\* entry of the cache keeps the content it was written with; it changes only
\* by being deleted, and only the sweep deletes.
C17_EntriesImmutable ==
    [][\A k \in DOMAIN scorer.cache :
          IF k \in DOMAIN scorer'.cache
          THEN scorer'.cache[k] = scorer.cache[k]
          ELSE CallOf("clean_old_cache")]_vars

\* an entry written on day 0 answers a call on day 2 and still has the
\* timestamp of day 0; the provider was called once in three calls
C17_Witness ==
    /\ pc = "scorer"
    /\ history.op = "score_paper"
    /\ history.n = 3
    /\ CacheHit(history)
    /\ now = 2
    /\ scorer.api_calls = 1
    /\ scorer.cache[history.key].cached_at = Isoformat(0)

\* the entries written before the cutoff: parsable objects whose cached_at is
\* the timestamp of a day t before it
OlderThan(cache, cutoff) ==
    {k \in DOMAIN cache :
        \E t \in 0..MaxDays :
            /\ "cached_at" \in DOMAIN cache[k]
            /\ cache[k].cached_at = [iso |-> t]
            /\ t < cutoff}

\* C18: clean_old_cache(days) removes exactly the entries whose cached_at is
\* before now - days, leaves every other entry (not older, without cached_at,
\* unparsable) in place and unchanged, and returns the number it removed.
C18_EvictionExact ==
    [][CallOf("clean_old_cache") =>
         LET old == OlderThan(scorer.cache, now - history'.days)
         IN /\ DOMAIN scorer'.cache = DOMAIN scorer.cache \ old
            /\ \A k \in DOMAIN scorer'.cache : scorer'.cache[k] = scorer.cache[k]
            /\ history'.removed_count = Cardinality(old)]_vars

\* a sweep with days = 0 on day 1 of a directory with the three files to skip,
\* an entry of day 0 and an entry of day 1: only the entry of day 0 is removed
C18_Witness ==
    /\ pc = "cache"
    /\ history.op = "clean_old_cache"
    /\ history.days = 0
    /\ now = 1
    /\ history.removed_count = 1
    /\ \E k \in CacheKeys :
          /\ DOMAIN scorer.cache = DOMAIN ForeignCache \cup {k}
          /\ scorer.cache[k].cached_at = Isoformat(1)
    /\ \A k \in DOMAIN ForeignCache : scorer.cache[k] = ForeignCache[k]

-----------------------------------------------------------------------------
(* Properties of score_papers_batch *)

BatchDone == history.op = "score_papers_batch"

\* the answer is a decision with every field
GoodAnswer(resp) ==
    resp.kind = "json" /\ RequiredFields \subseteq DOMAIN resp.value

\* the first paper of the list with the title and abstract of paper i
FirstOfPair(i) ==
    CHOOSE j \in 1..i :
        /\ SamePair(papers[j], papers[i])
        /\ \A l \in 1..(j - 1) : ~SamePair(papers[l], papers[i])

\* the external call for paper f fails and it is the only one that does: f
\* is the first paper with its title and abstract, so the provider is called
\* for it, and every other answer is a decision with every field
OnlyFailure(f) ==
    /\ f \in 1..Len(papers)
    /\ FirstOfPair(f) = f
    /\ ~GoodAnswer(history.resps[f])
    /\ \A i \in 1..Len(papers) \ {f} : GoodAnswer(history.resps[i])

\* the papers before i that are answered by their own external call, given
\* that the call for f fails
OwnCall(i, f) ==
    \/ FirstOfPair(i) = i
    \/ FirstOfPair(i) = f /\ \A l \in (f + 1)..(i - 1) : ~SamePair(papers[l], papers[i])

\* the answer paper i is scored with when only the call for f fails: its own
\* or the one of the first successful call for its title and abstract
AnswerFor(i, f) ==
    IF FirstOfPair(i) # f THEN history.resps[FirstOfPair(i)].value
    ELSE history.resps[CHOOSE j \in (f + 1)..i :
                          /\ SamePair(papers[j], papers[i])
                          /\ OwnCall(j, f)].value

\* C13: when the external call for one paper of the batch fails and all
\* others succeed, the batch does not raise, every other paper is scored with
\* the decision given for its title and abstract and retained if that reaches
\* min_score, and the failing paper gets score 0 and an error annotation.
C13_FailureIsolated ==
    \A f \in 1..Len(papers) :
        (BatchDone /\ OnlyFailure(f)) =>
            /\ ~history.raised
            /\ Len(history.calls) = Len(papers)
            /\ IsErrorResult(history.calls[f].out)
            /\ (min_score <= 0) =>
                   /\ f \in SeqToSet(filtered)
                   /\ papers[f].relevance_score = 0
                   /\ "error" \in DOMAIN papers[f].llm_metadata
            /\ \A i \in 1..Len(papers) \ {f} :
                   /\ NonError(history.calls[i].out)
                   /\ history.calls[i].out.score = AnswerFor(i, f).score
                   /\ history.calls[i].out.relevant = AnswerFor(i, f).relevant
                   /\ (AnswerFor(i, f).score >= min_score) <=> (i \in SeqToSet(filtered))
                   /\ (i \in SeqToSet(filtered)) =>
                          papers[i].relevance_score = AnswerFor(i, f).score

\* the papers whose returned score reaches min_score
RetainedByBatch ==
    {history.calls[i].paper : i \in {j \in 1..Len(history.calls) :
                                        history.calls[j].out.score >= min_score}}

\* C14: score_papers_batch scores every input paper once, in input order;
\* its result holds exactly the papers whose returned score is at least
\* min_score, with relevance_score, llm_metadata and matched_keywords set from
\* what score_paper returned, ordered by non-increasing score.
C14_BatchScoresAll ==
    BatchDone =>
        /\ [i \in 1..Len(history.calls) |-> history.calls[i].paper]
               = [i \in 1..Len(papers) |-> i]
        /\ pc = "returned"
        /\ SeqToSet(filtered) = RetainedByBatch
        /\ Len(filtered) = Cardinality(RetainedByBatch)
        /\ \A i \in SeqToSet(filtered) :
              /\ papers[i].relevance_score = history.calls[i].out.score
              /\ papers[i].llm_metadata = history.calls[i].out.metadata
              /\ papers[i].matched_keywords =
                     TopicsOfMetadata(history.calls[i].out.metadata)
        /\ NonIncreasing(filtered)

-----------------------------------------------------------------------------
(* Properties of the scoring fields of the retained papers *)

\* C15 as stated: no paper of the filtered output has relevance_score or
\* matched_keywords at its default, 0 and the empty list.
C15_NeverAtDefaults ==
    Filtered =>
        \A r \in SeqToSet(filtered) :
            /\ papers[r].relevance_score # 0
            /\ papers[r].matched_keywords # <<>>

\* C15, amended: every paper of the filtered output has a relevance_score of
\* at least min_score, so never the default 0 when min_score >= 1; from
\* filter_papers with min_score >= 1 its matched_keywords is not empty; from
\* score_papers_batch its matched_keywords is the topics list of its
\* llm_metadata.
C15_PopulatedFromScore ==
    Filtered =>
        \A r \in SeqToSet(filtered) :
            /\ papers[r].relevance_score >= min_score
            /\ (min_score >= 1) => papers[r].relevance_score # 0
            /\ (~use_llm /\ min_score >= 1) => papers[r].matched_keywords # <<>>
            /\ use_llm =>
                   /\ papers[r].llm_metadata # NoMetadata
                   /\ papers[r].matched_keywords
                          = TopicsOfMetadata(papers[r].llm_metadata)

\* filter_papers with min_score 1 on a paper matching one secondary keyword
\* once and a paper matching nothing: the first is retained with score 3 and
\* its keyword, the second is dropped and stays at the defaults
C15_Witness ==
    /\ pc = "filtered"
    /\ ~use_llm
    /\ min_score = 1
    /\ Len(papers) = 2
    /\ filtered = <<1>>
    /\ papers[1].relevance_score = 3
    /\ papers[1].matched_keywords = << <<"b">> >>
    /\ papers[2].relevance_score = 0
    /\ papers[2].matched_keywords = <<>>

-----------------------------------------------------------------------------
(* Properties of two processes on one cache directory *)

\* C20: under every interleaving of the steps of two processes that score the
\* same title and abstract on one cache directory, neither score_paper call
\* raises or reads a partial entry, and once both are done the file of the
\* key holds one complete decision.
C20_RaceHarmless ==
    /\ \A p \in DOMAIN runs :
          runs[p].pc = "done" => runs[p].out.kind = "return"
    /\ (runs # NoRuns /\ \A p \in DOMAIN runs : runs[p].pc = "done") =>
          /\ JSONLoad(cache_file).ok
          /\ RequiredFields \cup {"cached_at"}
                 \subseteq DOMAIN JSONLoad(cache_file).value

-----------------------------------------------------------------------------
(* Properties of the request of score_paper *)

\* the abstract is missing, empty or only whitespace
BlankAbstract(paper) == Strip(AbstractOrEmpty(paper.abstract)) = <<>>

\* C21: a call of score_paper that finds no cache entry for its paper counts
\* a call attempt and builds a request with the title of the paper, and with
\* the abstract-not-available placeholder when the abstract is missing, empty
\* or only whitespace (else with the abstract); with either known provider
\* that request goes to the provider.
C21_TitleOnlyAttempted ==
    (history.op = "score_paper" /\ history.cache_misses = 1) =>
        /\ history.api_calls = 1
        /\ (history.provider \in {"dashscope", "azure"}) =>
              /\ history.request # Absent
              /\ history.request.research_interests = history.research_interests
              /\ history.request.paper_info.title = history.paper.title
              /\ history.request.paper_info.source = history.paper.source
              /\ history.request.paper_info.abstract =
                     IF BlankAbstract(history.paper) THEN NotAvailable
                     ELSE history.paper.abstract

\* the third miss of a scorer, on a paper whose abstract is one blank: the
\* request holds the placeholder and the answer is retained in the cache
C21_Witness ==
    /\ history.op = "score_paper"
    /\ history.cache_misses = 1
    /\ history.paper.abstract = <<" ">>
    /\ history.provider = "azure"
    /\ history.request.paper_info.abstract = NotAvailable
    /\ history.request.paper_info.title = <<"a">>
    /\ NonError(history.out)
    /\ scorer.api_calls = 3
    /\ history.key \in DOMAIN scorer.cache

\* C22: with either known provider, a miss whose answer is text around an
\* embedded JSON object returns the decision of that object, not the error
\* result, and caches it; a miss whose answer holds no JSON returns the error
\* result.
C22_EmbeddedBlockParsed ==
    (/\ history.op = "score_paper"
     /\ history.cache_misses = 1
     /\ history.provider \in {"dashscope", "azure"}) =>
        /\ (history.resp.kind = "embedded") =>
              /\ NonError(history.out)
              /\ history.out.score = history.resp.value.score
              /\ history.out.relevant = history.resp.value.relevant
              /\ history.key \in DOMAIN scorer.cache
              /\ scorer.cache[history.key].score = history.resp.value.score
        /\ (history.resp.kind = "text") => IsErrorResult(history.out)

-----------------------------------------------------------------------------
(* Properties of the run statistics *)

\* this step is a call of score_paper
ScoreStep == CallOf("score_paper") /\ history'.n = ncalls'

\* 1 for TRUE, 0 for FALSE
Count(b) == IF b THEN 1 ELSE 0

\* C23: a new scorer has its three counters at 0, and every call of
\* score_paper adds one to cache_hits exactly when it is answered from the
\* cache, one to cache_misses exactly when the cache holds no entry for the
\* key of its paper, one to the two together, and one to api_calls with
\* every miss, whatever the external call then does; so api_calls never
\* exceeds cache_misses.
C23_RunStatistics ==
    /\ [](pc = "scorer" => scorer.api_calls <= scorer.cache_misses)
    /\ [][(ncalls' = ncalls + 1 /\ history' = history) =>
            /\ scorer'.cache_hits = 0
            /\ scorer'.cache_misses = 0
            /\ scorer'.api_calls = 0]_vars
    /\ [][ScoreStep =>
            LET found == history'.key \in DOMAIN scorer.cache
            IN /\ scorer'.cache_hits
                      = scorer.cache_hits + Count(CacheHit(history'))
               /\ scorer'.cache_misses = scorer.cache_misses + Count(~found)
               /\ scorer'.cache_hits + scorer'.cache_misses
                      = scorer.cache_hits + scorer.cache_misses + 1
               /\ scorer'.api_calls = scorer.api_calls + Count(~found)]_vars

-----------------------------------------------------------------------------
(* Properties of what score_paper writes to and reads from the cache *)

\* C26: a call of score_paper that returns the error result leaves the
\* cache as it was, and a call that puts or replaces an entry does so under
\* the key of its paper and returns a result that is no error result; so
\* every entry was written by a call for its key that returned a decision.
C26_OnlySuccessCached ==
    [][ScoreStep =>
          /\ IsErrorResult(history'.out) => scorer'.cache = scorer.cache
          /\ (scorer'.cache # scorer.cache) =>
                /\ NonError(history'.out)
                /\ DOMAIN scorer'.cache = DOMAIN scorer.cache \cup {history'.key}
                /\ \A k \in DOMAIN scorer.cache \ {history'.key} :
                       scorer'.cache[k] = scorer.cache[k]]_vars

\* C27: a call of score_paper on a paper for whose key the scorer has
\* written an entry returns a result tuple and raises nothing.
C27_HitsNeverRaise ==
    (history.op = "score_paper" /\ history.cache_hits = 1) =>
        /\ history.out.kind = "return"
        /\ history.out.metadata.cached = TRUE

-----------------------------------------------------------------------------
(* Properties of what filtering leaves alone *)

\* this step is filter_papers or score_papers_batch on the papers of the run
Filtering == pc = "fetched" /\ pc' \in {"filtered", "crashed"}

\* C28: filter_papers and score_papers_batch change no title, abstract, url
\* or source and add or remove no paper; a paper that is not in the list they
\* return is as it was before the call, with its previous relevance_score,
\* matched_keywords and llm_metadata (none, if it had none); a paper whose
\* keyword score is below min_score is as it was, and a paper that was
\* changed holds a relevance_score of at least min_score.
C28_FrameOfFiltering ==
    [][Filtering =>
          /\ Len(papers') = Len(papers)
          /\ \A r \in 1..Len(papers) :
                /\ papers'[r].title = papers[r].title
                /\ papers'[r].abstract = papers[r].abstract
                /\ papers'[r].url = papers[r].url
                /\ papers'[r].source = papers[r].source
                /\ (pc' = "filtered" /\ r \notin SeqToSet(filtered')) =>
                       papers'[r] = papers[r]
                /\ (~use_llm /\ KwScore(r).score < min_score) =>
                       papers'[r] = papers[r]
                /\ (papers'[r] # papers[r]) =>
                       /\ r \in SeqToSet(filtered')
                       /\ papers'[r].relevance_score >= min_score]_vars

\* score_papers_batch with min_score 50 on three papers: the first is retained
\* with score 75, the second keeps the score 60, the topics and the metadata
\* it had, the third keeps its score 0 and its error annotation
C28_Witness ==
    /\ pc = "filtered"
    /\ use_llm
    /\ min_score = 50
    /\ Len(papers) = 3
    /\ filtered = <<1>>
    /\ papers[1].relevance_score = 75
    /\ papers[1].llm_metadata # NoMetadata
    /\ papers[2].relevance_score = 60
    /\ papers[2].matched_keywords = <<"t">>
    /\ papers[2].llm_metadata.cached = TRUE
    /\ papers[3].relevance_score = 0
    /\ papers[3].llm_metadata = [error |-> "api error", cached |-> FALSE]
    /\ scorer.api_calls = 3

-----------------------------------------------------------------------------
(* Properties of the run of main *)

\* the calls of the kind `call` main made so far
Calls(call) == {i \in 1..Len(log) : log[i].call = call}

\* the calls that fetch, score, group or write a report
WorkCalls ==
    {i \in 1..Len(log) :
        log[i].call \in {"fetch_papers", "PaperFilter.filter_papers",
                         "LLMPaperScorer.score_papers_batch",
                         "PaperFilter.group_papers_by_relevance",
                         "LLMPaperScorer.group_papers_by_relevance",
                         "generate_report", "generate_summary_report"}}

\* the keywords file is missing, or in --use-llm mode the provider is unknown
\* or its credential is missing
ConfigError ==
    \/ ~config.keywords_file
    \/ use_llm /\ (\/ config.provider \notin {"dashscope", "azure"}
                   \/ config.provider = "dashscope" /\ config.dashscope_api_key = ""
                   \/ config.provider = "azure" /\ config.azure_endpoint = ""
                   \/ config.provider = "azure" /\ config.azure_api_key = "")

\* C24: with a configuration error the run of main never invokes a fetcher,
\* a scorer or the report generator, and it only goes on to exit with status
\* 1: at once when the keywords file is missing, after the check of the LLM
\* configuration otherwise.
C24_ConfigErrorsFatal ==
    /\ [](ConfigError =>
            /\ pc \in {"start", "loaded", "exit1"}
            /\ ExitStatus \in {-1, 1}
            /\ WorkCalls = {}
            /\ papers = <<>>
            /\ scorer.api_calls = 0
            /\ (pc = "exit1") => log[Len(log)].call = "sys.exit(1)")
    /\ [][(ConfigError /\ pc' # pc) =>
            \/ pc = "start" /\ config.keywords_file /\ pc' = "loaded"
            \/ pc \in {"start", "loaded"} /\ pc' = "exit1"]_vars

\* a run with --use-llm and --source all whose provider is none of the two:
\* the Config loads and the run exits with status 1, nothing else called
C24_Witness ==
    /\ pc = "exit1"
    /\ ExitStatus = 1
    /\ use_llm
    /\ args.source = "all"
    /\ config.provider = "other"
    /\ config.keywords_file
    /\ log = <<Event("Config", "-", FALSE, <<>>),
               Event("sys.exit(1)", "-", FALSE, <<>>)>>

\* the run is at a fetch block or has just left the last one
Fetching == pc \in SeqToSet(SourceOrder) \cup {"fetched"}

\* the number of fetch blocks the run has passed
BlocksPassed ==
    IF pc = "fetched" THEN Len(SourceOrder)
    ELSE (CHOOSE i \in 1..Len(SourceOrder) : SourceOrder[i] = pc) - 1

\* the selected sources among the blocks passed, in their order
SourcesPassed ==
    LET IsSelected(s) == Selected(args, s)
    IN SelectSeq(SubSeq(SourceOrder, 1, BlocksPassed), IsSelected)

\* the fetch calls of the log, in their order
FetchCalls ==
    LET IsFetch(e) == e.call = "fetch_papers"
    IN SelectSeq(log, IsFetch)

\* the papers the fetch calls returned, in their order
RECURSIVE Contributed(_)
Contributed(calls) ==
    IF calls = <<>> THEN <<>>
    ELSE Head(calls).returned \o Contributed(Tail(calls))

KeywordCalls ==
    Calls("PaperFilter.filter_papers")
        \cup Calls("PaperFilter.group_papers_by_relevance")
LLMCalls ==
    Calls("LLMPaperScorer.score_papers_batch")
        \cup Calls("LLMPaperScorer.group_papers_by_relevance")

\* the calls that write a report
ReportCalls == Calls("generate_report") \cup Calls("generate_summary_report")

\* the calls that group
GroupCalls ==
    Calls("PaperFilter.group_papers_by_relevance")
        \cup Calls("LLMPaperScorer.group_papers_by_relevance")

\* the calls that score
ScoreCalls ==
    Calls("PaperFilter.filter_papers")
        \cup Calls("LLMPaperScorer.score_papers_batch")

\* C29: a run of main never applies both scorers and applies the one chosen
\* by --use-llm at most once; a report is written at most once and only
\* after the fetch blocks, one scoring that returned a non-empty list and the
\* grouping of that scorer, in this order; a run that fetched no paper or
\* whose scorer returned no paper exits with status 0 and has neither
\* grouped nor written a report.
C29_PipelineOrder ==
    /\ [](/\ (use_llm => KeywordCalls = {}) /\ (~use_llm => LLMCalls = {})
          /\ Cardinality(ScoreCalls) <= 1
          /\ Cardinality(GroupCalls) <= 1
          /\ Cardinality(ReportCalls) <= 1
          /\ \A g \in GroupCalls :
                /\ Cardinality(ScoreCalls) = 1
                /\ \A c \in ScoreCalls : c < g /\ ~log[c].raised
                /\ filtered # <<>>
          /\ \A r \in ReportCalls :
                /\ Cardinality(GroupCalls) = 1
                /\ \A g \in GroupCalls : g < r
                /\ \A f \in Calls("fetch_papers") : f < r
                /\ filtered # <<>>
                /\ groups # NoGroups
          /\ \A c \in ScoreCalls : \A f \in Calls("fetch_papers") : f < c
          /\ (pc = "done") => Cardinality(ReportCalls) = 1)
    /\ [][(pc = "fetched" /\ papers = <<>> /\ pc' # pc) => pc' = "exit0"]_vars
    /\ [][(pc = "filtered" /\ filtered = <<>> /\ pc' # pc) => pc' = "exit0"]_vars
    /\ []((pc = "exit0") =>
             /\ ExitStatus = 0
             /\ GroupCalls = {}
             /\ ReportCalls = {}
             /\ groups = NoGroups
             /\ (papers = <<>> \/ filtered = <<>>))

\* a run with --use-llm that fetched two papers, retained one of them,
\* grouped and wrote its report
C29_Witness ==
    /\ pc = "done"
    /\ use_llm
    /\ Len(papers) = 2
    /\ Len(filtered) = 1
    /\ Cardinality(Calls("LLMPaperScorer.score_papers_batch")) = 1
    /\ Cardinality(Calls("LLMPaperScorer.group_papers_by_relevance")) = 1
    /\ Cardinality(ReportCalls) = 1
    /\ KeywordCalls = {}
    /\ log[Len(log)].call \in {"generate_report", "generate_summary_report"}
    /\ ~log[Len(log)].raised

-----------------------------------------------------------------------------
(* Properties of ArXivFetcher.fetch_papers *)

\* the entry ids of the results the search of a category yields within
\* the time range, before an old result or an exception ends its loop
RECURSIVE Yielded(_, _, _)
Yielded(results, cutoff_date, k) ==
    IF k > Len(results) THEN {}
    ELSE IF results[k].kind # "result" \/ results[k].published < cutoff_date
         THEN {}
         ELSE {results[k].entry_id} \cup Yielded(results, cutoff_date, k + 1)

\* the entry ids of the results a category lists within the time range
\* before an old result or an exception of the client
RECURSIVE Listed(_, _, _)
Listed(results, cutoff_date, k) ==
    IF k > Len(results) THEN {}
    ELSE IF results[k].kind = "error" \/ results[k].published < cutoff_date
         THEN {}
         ELSE (IF results[k].kind = "result" THEN {results[k].entry_id} ELSE {})
                  \cup Listed(results, cutoff_date, k + 1)

AllListed ==
    UNION {Listed(history.categories[c], now - history.days, 1) :
              c \in 1..Len(history.categories)}

AllYielded ==
    UNION {Yielded(history.categories[c], now - history.days, 1) :
              c \in 1..Len(history.categories)}

\* the entry ids some category lists with a result that cannot be converted
MalformedIds ==
    UNION {{history.categories[c][k].entry_id :
               k \in {m \in 1..Len(history.categories[c]) :
                         history.categories[c][m].kind = "malformed"}} :
              c \in 1..Len(history.categories)}

\* C30: the list fetch_papers returns holds no two papers with the same
\* url; every configured category is searched, once and in order, also after
\* a category whose search raised; the papers of the list are papers the
\* categories list in the time range; and every entry id that a category
\* yielded, and that no category lists with a result that cannot be
\* converted, has its paper in the list, however many categories list it.
C30_ArxivDeduplicated ==
    (history.op = "fetch_papers") =>
        /\ \A i, j \in 1..Len(papers) :
              i # j => papers[i].url # papers[j].url
        /\ [i \in 1..Len(history.processed) |-> history.processed[i].category]
               = [i \in 1..Len(history.categories) |-> i]
        /\ {papers[i].url : i \in 1..Len(papers)} \subseteq AllListed
        /\ AllYielded \ MalformedIds
               \subseteq {papers[i].url : i \in 1..Len(papers)}

\* three categories: the first yields x1 and x2, the search of the second
\* raises after x1, the third yields x2 and ends at an old x1: two papers
C30_Witness ==
    /\ history.op = "fetch_papers"
    /\ history.days = 1
    /\ history.categories = << <<Result("x1", 2), Result("x2", 2)>>,
                               <<Result("x1", 2), APIError, Result("x3", 2)>>,
                               <<Result("x2", 2), Result("x1", 0)>> >>
    /\ history.processed[2].raised
    /\ ~history.processed[3].raised
    /\ Len(papers) = 2
    /\ papers[1].url = "x1"
    /\ papers[2].url = "x2"

====
